---- MODULE Spec2Model ----
(***************************************************************************)
(* EWPM backend: role-based authorization and tenant isolation.            *)
(*                                                                         *)
(* The state is the content of the MongoDB collections the handlers read   *)
(* and write (users, projects, tasks, permission overrides, audit log),    *)
(* together with the last request served and the answer it received.  One  *)
(* action models one Express route: its middleware chain followed by its   *)
(* controller.                                                             *)
(***************************************************************************)
EXTENDS Integers, Sequences, FiniteSets, Bags, TLC

VARIABLES users, projects, tasks, perms, auditLog, tenants, permColl, upserts,
          redisClient, blacklist, now, refreshTokens, issued, refreshes,
          loggedOut, req, res

\* The session state: the Redis client and its blacklist keys, the clock,
\* each user's stored refresh token, the number of refresh tokens issued,
\* the refresh requests under way, and the access tokens whose logout was
\* answered with success.
authState == <<redisClient, blacklist, now, refreshTokens, issued, refreshes,
               loggedOut>>

vars == <<users, projects, tasks, perms, auditLog, tenants, permColl, upserts,
          authState, req, res>>

store == <<users, projects, tasks, perms, auditLog, tenants, permColl>>

(***************************************************************************)
(* Bounds of the model.                                                    *)
(***************************************************************************)
\* The audit collection is append-only; handlers that write an audit entry
\* are explored while it holds fewer than MaxAudit entries.
MaxAudit == 1

\* Number of comment ids a task hands out.
MaxComments == 1

\* The Permission collection is followed while it holds fewer than
\* MaxPermDocs documents.
MaxPermDocs == 3

\* The clock is followed up to MaxTime ticks.
MaxTime == 2

\* Refresh tokens are issued up to the MaxIssued-th.
MaxIssued == 3

(***************************************************************************)
(* Values.                                                                 *)
(***************************************************************************)
None == "none"   \* null / undefined / absent

Tenants == {"tA", "tB"}

UserIds == {"sa", "oa", "pm", "pm2", "e1", "e2", "ob", "eb"}

ProjectIds == {"P1", "P2"}

TaskIds == {"T1", "T2"}

CommentIds == 1..MaxComments

Statuses == {"TODO", "IN_PROGRESS", "IN_REVIEW", "DONE", "BLOCKED", "CANCELLED"}

MemberRoles == {"MEMBER", "LEAD", "VIEWER"}

Categories == {"manageTenants", "manageUsers", "manageProjects", "manageTasks",
               "viewReports", "viewAuditLogs"}

\* The user table the credentials in circulation were issued from.
InitUsers ==
  [u \in UserIds |->
     CASE u = "sa"  -> [exists |-> TRUE, role |-> "SUPER_ADMIN",     tenantId |-> None]
       [] u = "oa"  -> [exists |-> TRUE, role |-> "ORG_ADMIN",       tenantId |-> "tA"]
       [] u = "pm"  -> [exists |-> TRUE, role |-> "PROJECT_MANAGER", tenantId |-> "tA"]
       [] u = "pm2" -> [exists |-> TRUE, role |-> "PROJECT_MANAGER", tenantId |-> "tA"]
       [] u = "e1"  -> [exists |-> TRUE, role |-> "EMPLOYEE",        tenantId |-> "tA"]
       [] u = "e2"  -> [exists |-> TRUE, role |-> "EMPLOYEE",        tenantId |-> "tA"]
       [] u = "ob"  -> [exists |-> TRUE, role |-> "ORG_ADMIN",       tenantId |-> "tB"]
       [] OTHER     -> [exists |-> TRUE, role |-> "EMPLOYEE",        tenantId |-> "tB"]]

\* generateTokens: the JWT payload is {id, role, tenantId} of the user record
\* at login; authenticate puts the decoded payload in req.user.
Cred(u) == [id |-> u, role |-> InitUsers[u].role, tenantId |-> InitUsers[u].tenantId]

Role(p) == Cred(p).role

Home(p) == Cred(p).tenantId

(***************************************************************************)
(* Answers.                                                                *)
(***************************************************************************)
\* ctrl: the controller was reached; data: the documents a read returns;
\* total: pagination.total of a listing.
Pass == [status |-> 0, reason |-> "pass", ctrl |-> FALSE, data |-> {}, total |-> 0]

\* An answer given by a middleware.
Deny(status, reason) ==
  [status |-> status, reason |-> reason, ctrl |-> FALSE, data |-> {}, total |-> 0]

\* An answer given by the controller itself.
Ctrl(status, reason) ==
  [status |-> status, reason |-> reason, ctrl |-> TRUE, data |-> {}, total |-> 0]

\* res.json({success: true, data})
Found(data) ==
  [status |-> 200, reason |-> "OK", ctrl |-> TRUE, data |-> data, total |-> 0]

\* res.json({success: true, data, pagination: {total}})
Listed(data, total) ==
  [status |-> 200, reason |-> "OK", ctrl |-> TRUE, data |-> data, total |-> total]

\* a, and b when a called next().
Then(a, b) == IF a.reason = "pass" THEN b ELSE a

(***************************************************************************)
(* Tenant resolution.                                                      *)
(***************************************************************************)
\* The host header as its dot-separated labels;
\* <<>> is a request without one.
Hosts == {<<>>, <<"tA", "app">>, <<"tB", "app">>, <<"www", "app">>}

Indicators == [header : Tenants \cup {None}, query : Tenants \cup {None}, host : Hosts]

\* req.headers.host?.split('.')[0]
Subdomain(host) == IF host = <<>> THEN None ELSE Head(host)

\* Priority: header > query > subdomain, then the credential's tenant.
ResolveTenantId(p, ind) ==
  IF ind.header # None THEN ind.header
  ELSE IF ind.query # None THEN ind.query
  ELSE IF Subdomain(ind.host) # None THEN Subdomain(ind.host)
  ELSE Home(p)

\* Which indicator supplied the resolved tenant.
TenantSource(p, ind) ==
  IF ind.header # None THEN "header"
  ELSE IF ind.query # None THEN "query"
  ELSE IF Subdomain(ind.host) # None THEN "subdomain"
  ELSE IF Home(p) # None THEN "credential"
  ELSE None

\* Tenant resolution without the comparison to the caller's tenant.
resolveTenant_NoAccessCheck(p, ind) ==
  IF ResolveTenantId(p, ind) = None THEN Deny(400, "TenantRequired") ELSE Pass

resolveTenant(p, ind) ==
  LET tenantId == ResolveTenantId(p, ind)
  IN IF tenantId = None THEN Deny(400, "TenantRequired")
     ELSE IF Home(p) # tenantId /\ Role(p) # "SUPER_ADMIN"
          THEN Deny(403, "TenantAccessDenied")
          ELSE Pass

(***************************************************************************)
(* Role middleware.                                                        *)
(***************************************************************************)
\* The router without its SUPER_ADMIN guard.
preventSuperAdminTenantWork_Off(p) == Pass

preventSuperAdminTenantWork(p) ==
  IF Role(p) = "SUPER_ADMIN" THEN Deny(403, "SuperAdminScopeViolation") ELSE Pass

authorize(p, roles) ==
  IF Role(p) \notin roles THEN Deny(403, "InsufficientCapability") ELSE Pass

\* Task.findOne({_id, tenantId}): the task, when it is in that tenant.
FindTask(t, tenantId) == tasks[t].exists /\ tasks[t].tenantId = tenantId

FindProject(pr, tenantId) == projects[pr].exists /\ projects[pr].tenantId = tenantId

restrictToOwnTasks(p, tenantId, t) ==
  IF Role(p) = "EMPLOYEE"
  THEN IF ~FindTask(t, tenantId) THEN Deny(404, "NotFound")
       ELSE IF tasks[t].assigneeId # p THEN Deny(403, "NotOwner")
       ELSE Pass
  ELSE Pass

\* A manager test that any membership satisfies.
isProjectManager_AnyMember(p, pr) ==
  \/ projects[pr].managerId = p
  \/ projects[pr].ownerId = p
  \/ \E m \in projects[pr].members : m.userId = p

\* The manager-or-owner-or-LEAD test the handlers repeat.
isProjectManager(p, pr) ==
  \/ projects[pr].managerId = p
  \/ projects[pr].ownerId = p
  \/ \E m \in projects[pr].members : m.userId = p /\ m.role = "LEAD"

restrictToOwnProjects(p, tenantId, pr) ==
  IF Role(p) = "PROJECT_MANAGER"
  THEN IF ~FindProject(pr, tenantId) THEN Deny(404, "NotFound")
       ELSE IF ~isProjectManager(p, pr) THEN Deny(403, "NotOwner")
       ELSE Pass
  ELSE Pass

\* router.use(authenticate, resolveTenant, tenantScope, preventSuperAdminTenantWork)
TenantWorkChain(p, ind) == Then(resolveTenant(p, ind), preventSuperAdminTenantWork(p))

(***************************************************************************)
(* Requests and answers as recorded in the state.                          *)
(***************************************************************************)
\* id is the :id of the route, arg what else the request carries (a second
\* path parameter, the body).
Request(op, p, ind, id, arg) ==
  [op |-> op, who |-> p, tenant |-> ResolveTenantId(p, ind),
   src |-> TenantSource(p, ind), id |-> id, arg |-> arg]

Answer(op, p, ind, id, arg, r) ==
  /\ req' = Request(op, p, ind, id, arg)
  /\ res' = r

(***************************************************************************)
(* Audit trail.                                                            *)
(***************************************************************************)
AuditEntry(tenantId, p, action, resourceType, resourceId) ==
  [tenantId |-> tenantId, userId |-> p, action |-> action,
   resourceType |-> resourceType, resourceId |-> resourceId]

\* createAuditLog: AuditLog.create, whose failure is logged and swallowed.
\* stored is whether the audit store accepted the entry.
createAuditLog(entry, stored) ==
  IF stored /\ entry.tenantId # None /\ entry.userId # None
  THEN Append(auditLog, entry)
  ELSE auditLog

\* A handler awaits createAuditLog between its write and its answer. An audit
\* step that threw would send the handler to its error answer.
AfterAudit_Throws(r, stored) == IF stored THEN r ELSE Ctrl(500, "ServerError")

\* An audit step after which the handler answers 403 when the entry was
\* not stored.
AfterAudit_Forbidden(r, stored) == IF stored THEN r ELSE Ctrl(403, "Forbidden")

\* createAuditLog catches the failure of the audit store and returns null:
\* the handler goes on to the answer r it was about to send.
AfterAudit(r, stored) == r

AuditRoom == Len(auditLog) < MaxAudit

\* The audit store accepts an entry or fails; the collection is followed up
\* to MaxAudit entries.
AuditOutcomes == IF AuditRoom THEN BOOLEAN ELSE {FALSE}

(***************************************************************************)
(* Task model.                                                             *)
(***************************************************************************)
NoTask == [exists |-> FALSE, tenantId |-> None, projectId |-> None,
           assigneeId |-> None, status |-> "TODO", comments |-> {}]

\* taskSchema.methods.canTransitionTo
validTransitions(status) ==
  CASE status = "TODO"        -> {"IN_PROGRESS", "CANCELLED"}
    [] status = "IN_PROGRESS" -> {"IN_REVIEW", "BLOCKED", "CANCELLED"}
    [] status = "IN_REVIEW"   -> {"DONE", "IN_PROGRESS"}
    [] status = "DONE"        -> {"IN_PROGRESS"}
    [] status = "BLOCKED"     -> {"IN_PROGRESS", "CANCELLED"}
    [] OTHER                  -> {}

canTransitionTo(t, newStatus) == newStatus \in validTransitions(tasks[t].status)

\* A field a request body does not carry.
Absent == "absent"

\* Object.assign(task, req.body) for the fields the model keeps.
AssignBody(task, body) ==
  [task EXCEPT
     !.status     = IF body.status = Absent THEN @ ELSE body.status,
     !.assigneeId = IF body.assigneeId = Absent THEN @ ELSE body.assigneeId,
     !.tenantId   = IF body.tenantId = Absent THEN @ ELSE body.tenantId,
     !.projectId  = IF body.projectId = Absent THEN @ ELSE body.projectId]

\* The project check of the task handlers: Project.findById(task.projectId),
\* and the manager test when the project is found.
ManagesTaskProject(p, t) ==
  LET pr == tasks[t].projectId
  IN (pr \in ProjectIds /\ projects[pr].exists) => isProjectManager(p, pr)

\* task.save(): tenantId and projectId are required paths.
TaskValid(task) == task.tenantId # None /\ task.projectId # None

(***************************************************************************)
(* Task routes (task.routes.js) and their controllers.                     *)
(***************************************************************************)
\* An employee may not change the assignee of a task.
EmployeeReassigns_Never(p, t, body) == FALSE

\* if (req.body.assigneeId && req.body.assigneeId !== task.assigneeId?.toString())
EmployeeReassigns(p, t, body) ==
  /\ Role(p) = "EMPLOYEE"
  /\ body.assigneeId \notin {Absent, None}
  /\ body.assigneeId # tasks[t].assigneeId

\* PUT /api/tasks/:id
updateTask(p, ind, t, body) ==
  LET tenantId == ResolveTenantId(p, ind)
      gate == Then(TenantWorkChain(p, ind), restrictToOwnTasks(p, tenantId, t))
      after == AssignBody(tasks[t], body)
      r == IF gate.reason # "pass" THEN gate
           ELSE IF ~FindTask(t, tenantId) THEN Ctrl(404, "NotFound")
           ELSE IF Role(p) = "EMPLOYEE" /\ tasks[t].assigneeId # p
                THEN Ctrl(403, "NotOwner")
           ELSE IF EmployeeReassigns(p, t, body) THEN Ctrl(403, "CannotReassign")
           ELSE IF Role(p) = "PROJECT_MANAGER" /\ ~ManagesTaskProject(p, t)
                THEN Ctrl(403, "NotOwner")
           ELSE IF ~TaskValid(after) THEN Ctrl(500, "ValidationError")
           ELSE Ctrl(200, "OK")
  IN /\ req' = Request("updateTask", p, ind, t, body)
     /\ IF r.status = 200
        THEN /\ tasks' = [tasks EXCEPT ![t] = after]
             /\ \E stored \in AuditOutcomes :
                  /\ auditLog' = createAuditLog(AuditEntry(tenantId, p, "UPDATE", "TASK", t), stored)
                  /\ res' = AfterAudit(r, stored)
        ELSE /\ res' = r
             /\ UNCHANGED <<tasks, auditLog>>
     /\ UNCHANGED <<users, projects, perms, tenants, permColl, upserts, authState>>

\* PATCH /api/tasks/:id/status
updateTaskStatus(p, ind, t, status) ==
  LET tenantId == ResolveTenantId(p, ind)
      gate == Then(TenantWorkChain(p, ind), restrictToOwnTasks(p, tenantId, t))
      saved == /\ gate.reason = "pass"
               /\ FindTask(t, tenantId)
               /\ ~(Role(p) = "EMPLOYEE" /\ tasks[t].assigneeId # p)
               /\ ~(Role(p) = "PROJECT_MANAGER" /\ ~ManagesTaskProject(p, t))
      r == IF gate.reason # "pass" THEN gate
           ELSE IF ~FindTask(t, tenantId) THEN Ctrl(404, "NotFound")
           ELSE IF Role(p) = "EMPLOYEE" /\ tasks[t].assigneeId # p
                THEN Ctrl(403, "NotOwner")
           ELSE IF Role(p) = "PROJECT_MANAGER" /\ ~ManagesTaskProject(p, t)
                THEN Ctrl(403, "NotOwner")
           \* the notification step returns without answering when the
           \* acting employee's user record is gone
           ELSE IF Role(p) = "EMPLOYEE" /\ tasks[t].status # status /\ ~users[p].exists
                THEN Ctrl(0, "NoResponse")
           ELSE Ctrl(200, "OK")
  IN /\ req' = Request("updateTaskStatus", p, ind, t, status)
     /\ IF saved
        THEN /\ tasks' = [tasks EXCEPT ![t].status = status]
             /\ \E stored \in AuditOutcomes :
                  /\ auditLog' = createAuditLog(AuditEntry(tenantId, p, "UPDATE", "TASK", t), stored)
                  /\ res' = AfterAudit(r, stored)
        ELSE /\ res' = r
             /\ UNCHANGED <<tasks, auditLog>>
     /\ UNCHANGED <<users, projects, perms, tenants, permColl, upserts, authState>>

\* The _id Task.create gives the new document.
FreeTaskIds == {t \in TaskIds : ~tasks[t].exists}

\* {...req.body, tenantId: req.tenantId, reporterId}: the document of
\* Task.create, with the schema defaults for what the body leaves out.
taskData(body, tenantId) ==
  [exists |-> TRUE, tenantId |-> tenantId, projectId |-> body.projectId,
   assigneeId |-> IF body.assigneeId = Absent THEN None ELSE body.assigneeId,
   status |-> IF body.status = Absent THEN "TODO" ELSE body.status,
   comments |-> {}]

\* POST /api/tasks
createTask(p, ind, body) ==
  LET tenantId == ResolveTenantId(p, ind)
      gate == Then(TenantWorkChain(p, ind),
                Then(authorize(p, {"ORG_ADMIN", "PROJECT_MANAGER"}),
                     authorize(p, {"SUPER_ADMIN", "ORG_ADMIN", "PROJECT_MANAGER"})))
      pr == body.projectId
      r == IF gate.reason # "pass" THEN gate
           ELSE IF ~(pr \in ProjectIds /\ FindProject(pr, tenantId))
                THEN Ctrl(404, "ProjectNotFound")
           ELSE IF Role(p) = "PROJECT_MANAGER" /\ ~isProjectManager(p, pr)
                THEN Ctrl(403, "NotOwner")
           ELSE Ctrl(201, "Created")
  IN /\ req' = Request("createTask", p, ind, None, body)
     /\ IF r.status = 201
        THEN \E t \in FreeTaskIds :
               /\ tasks' = [tasks EXCEPT ![t] = taskData(body, tenantId)]
               /\ \E stored \in AuditOutcomes :
                    /\ auditLog' = createAuditLog(AuditEntry(tenantId, p, "CREATE", "TASK", t), stored)
                    /\ res' = AfterAudit([r EXCEPT !.data = {t}], stored)
        ELSE /\ res' = r
             /\ UNCHANGED <<tasks, auditLog>>
     /\ UNCHANGED <<users, projects, perms, tenants, permColl, upserts, authState>>

\* DELETE /api/tasks/:id
deleteTask(p, ind, t) ==
  LET tenantId == ResolveTenantId(p, ind)
      gate == Then(TenantWorkChain(p, ind),
                   authorize(p, {"ORG_ADMIN", "PROJECT_MANAGER"}))
      r == IF gate.reason # "pass" THEN gate
           ELSE IF ~FindTask(t, tenantId) THEN Ctrl(404, "NotFound")
           ELSE IF Role(p) = "PROJECT_MANAGER" /\ ~ManagesTaskProject(p, t)
                THEN Ctrl(403, "NotOwner")
           ELSE Ctrl(200, "OK")
  IN /\ req' = Request("deleteTask", p, ind, t, None)
     /\ IF r.status = 200
        THEN /\ tasks' = [tasks EXCEPT ![t] = NoTask]
             /\ \E stored \in AuditOutcomes :
                  /\ auditLog' = createAuditLog(AuditEntry(tenantId, p, "DELETE", "TASK", t), stored)
                  /\ res' = AfterAudit(r, stored)
        ELSE /\ res' = r
             /\ UNCHANGED <<tasks, auditLog>>
     /\ UNCHANGED <<users, projects, perms, tenants, permColl, upserts, authState>>

\* The _id a pushed comment gets.
FreeCommentIds(t) == {c \in CommentIds : \A m \in tasks[t].comments : m.id # c}

\* POST /api/tasks/:id/comments
addComment(p, ind, t, content) ==
  LET tenantId == ResolveTenantId(p, ind)
      gate == Then(TenantWorkChain(p, ind), restrictToOwnTasks(p, tenantId, t))
      r == IF gate.reason # "pass" THEN gate
           ELSE IF ~FindTask(t, tenantId) THEN Ctrl(404, "NotFound")
           ELSE IF Role(p) = "EMPLOYEE" /\ tasks[t].assigneeId # p
                THEN Ctrl(403, "NotOwner")
           ELSE IF Role(p) = "PROJECT_MANAGER" /\ ~ManagesTaskProject(p, t)
                THEN Ctrl(403, "NotOwner")
           ELSE Ctrl(200, "OK")
  IN /\ req' = Request("addComment", p, ind, t, content)
     /\ IF r.status = 200
        THEN /\ \E c \in FreeCommentIds(t) :
                  /\ \A d \in FreeCommentIds(t) : c <= d
                  /\ tasks' = [tasks EXCEPT ![t].comments =
                       @ \cup {[id |-> c, userId |-> p, content |-> content]}]
             /\ \E stored \in AuditOutcomes :
                  /\ auditLog' = createAuditLog(AuditEntry(tenantId, p, "UPDATE", "TASK", t), stored)
                  /\ res' = AfterAudit(r, stored)
        ELSE /\ res' = r
             /\ UNCHANGED <<tasks, auditLog>>
     /\ UNCHANGED <<users, projects, perms, tenants, permColl, upserts, authState>>

\* task.comments.id(commentId)
CommentById(t, c) == {m \in tasks[t].comments : m.id = c}

\* An answer that does not look at the comment's author.
CommentAnswer_AnyAuthor(p, ind, t, c) ==
  LET tenantId == ResolveTenantId(p, ind)
      gate == Then(TenantWorkChain(p, ind), restrictToOwnTasks(p, tenantId, t))
  IN IF gate.reason # "pass" THEN gate
     ELSE IF ~FindTask(t, tenantId) THEN Ctrl(404, "NotFound")
     ELSE IF Role(p) = "EMPLOYEE" /\ tasks[t].assigneeId # p
          THEN Ctrl(403, "NotOwner")
     ELSE IF CommentById(t, c) = {} THEN Ctrl(404, "CommentNotFound")
     ELSE Ctrl(200, "OK")

\* The answer of PUT and DELETE /api/tasks/:id/comments/:commentId.
CommentAnswer(p, ind, t, c) ==
  LET tenantId == ResolveTenantId(p, ind)
      gate == Then(TenantWorkChain(p, ind), restrictToOwnTasks(p, tenantId, t))
  IN IF gate.reason # "pass" THEN gate
     ELSE IF ~FindTask(t, tenantId) THEN Ctrl(404, "NotFound")
     ELSE IF Role(p) = "EMPLOYEE" /\ tasks[t].assigneeId # p
          THEN Ctrl(403, "NotOwner")
     ELSE IF CommentById(t, c) = {} THEN Ctrl(404, "CommentNotFound")
     ELSE IF (\E m \in CommentById(t, c) : m.userId # p) /\ Role(p) # "ORG_ADMIN"
          THEN Ctrl(403, "NotOwner")
     ELSE Ctrl(200, "OK")

\* PUT /api/tasks/:id/comments/:commentId
updateComment(p, ind, t, c, content) ==
  LET r == CommentAnswer(p, ind, t, c)
  IN /\ Answer("updateComment", p, ind, t, <<c, content>>, r)
     /\ IF r.status = 200
        THEN tasks' = [tasks EXCEPT ![t].comments =
               {IF m.id = c THEN [m EXCEPT !.content = content] ELSE m : m \in @}]
        ELSE UNCHANGED tasks
     /\ UNCHANGED <<users, projects, perms, auditLog, tenants, permColl, upserts, authState>>

\* DELETE /api/tasks/:id/comments/:commentId
deleteComment(p, ind, t, c) ==
  LET r == CommentAnswer(p, ind, t, c)
  IN /\ Answer("deleteComment", p, ind, t, <<c>>, r)
     /\ IF r.status = 200
        THEN tasks' = [tasks EXCEPT ![t].comments = {m \in @ : m.id # c}]
        ELSE UNCHANGED tasks
     /\ UNCHANGED <<users, projects, perms, auditLog, tenants, permColl, upserts, authState>>

\* GET /api/tasks/:id
getTaskById(p, ind, t) ==
  LET tenantId == ResolveTenantId(p, ind)
      gate == Then(TenantWorkChain(p, ind), restrictToOwnTasks(p, tenantId, t))
      r == IF gate.reason # "pass" THEN gate
           ELSE IF ~FindTask(t, tenantId) THEN Ctrl(404, "NotFound")
           ELSE Found({t})
  IN /\ Answer("getTaskById", p, ind, t, None, r)
     /\ UNCHANGED <<store, upserts, authState>>

(***************************************************************************)
(* Project routes (project.routes.js) and their controllers.               *)
(***************************************************************************)
NoProject == [exists |-> FALSE, tenantId |-> None, ownerId |-> None,
              managerId |-> None, members |-> {}]

IsMember(p, pr) == \E m \in projects[pr].members : m.userId = p

\* router.use(...), authorize('ORG_ADMIN', 'PROJECT_MANAGER'), restrictToOwnProjects
ProjectWriteChain(p, ind, pr) ==
  Then(TenantWorkChain(p, ind),
       Then(authorize(p, {"ORG_ADMIN", "PROJECT_MANAGER"}),
            restrictToOwnProjects(p, ResolveTenantId(p, ind), pr)))

\* GET /api/projects/:id
getProjectById(p, ind, pr) ==
  LET tenantId == ResolveTenantId(p, ind)
      gate == TenantWorkChain(p, ind)
      visible == /\ FindProject(pr, tenantId)
                 /\ Role(p) = "PROJECT_MANAGER" =>
                      (projects[pr].managerId = p \/ projects[pr].ownerId = p
                         \/ IsMember(p, pr))
                 /\ Role(p) = "EMPLOYEE" => IsMember(p, pr)
      r == IF gate.reason # "pass" THEN gate
           ELSE IF ~visible THEN Ctrl(404, "NotFound")
           ELSE Found({pr})
  IN /\ Answer("getProjectById", p, ind, pr, None, r)
     /\ UNCHANGED <<store, upserts, authState>>

\* The fields of a PUT /api/projects/:id body the model keeps; hasMembers
\* is whether the body carries a members array.  The keys tenantId, ownerId
\* and _id are skipped.
AssignProjectBody(project, body) ==
  [project EXCEPT
     !.members   = IF body.hasMembers THEN body.members ELSE @,
     !.managerId = IF body.managerId = Absent THEN @ ELSE body.managerId]

\* project.save(): managerId is a required path.
ProjectValid(project) == project.managerId # None

\* PUT /api/projects/:id
updateProject(p, ind, pr, body) ==
  LET tenantId == ResolveTenantId(p, ind)
      gate == ProjectWriteChain(p, ind, pr)
      after == AssignProjectBody(projects[pr], body)
      r == IF gate.reason # "pass" THEN gate
           ELSE IF ~FindProject(pr, tenantId) THEN Ctrl(404, "NotFound")
           ELSE IF ~ProjectValid(after) THEN Ctrl(500, "ValidationError")
           ELSE Ctrl(200, "OK")
  IN /\ req' = Request("updateProject", p, ind, pr, body)
     /\ IF r.status = 200
        THEN /\ projects' = [projects EXCEPT ![pr] = after]
             /\ \E stored \in AuditOutcomes :
                  /\ auditLog' = createAuditLog(AuditEntry(tenantId, p, "UPDATE", "PROJECT", pr), stored)
                  /\ res' = AfterAudit(r, stored)
        ELSE /\ res' = r
             /\ UNCHANGED <<projects, auditLog>>
     /\ UNCHANGED <<users, tasks, perms, tenants, permColl, upserts, authState>>

\* DELETE /api/projects/:id
deleteProject(p, ind, pr) ==
  LET tenantId == ResolveTenantId(p, ind)
      gate == Then(TenantWorkChain(p, ind), authorize(p, {"ORG_ADMIN"}))
      r == IF gate.reason # "pass" THEN gate
           ELSE IF ~FindProject(pr, tenantId) THEN Ctrl(404, "NotFound")
           ELSE IF \E t \in TaskIds : tasks[t].exists /\ tasks[t].projectId = pr
                THEN Ctrl(400, "HasTasks")
           ELSE Ctrl(200, "OK")
  IN /\ req' = Request("deleteProject", p, ind, pr, None)
     /\ IF r.status = 200
        THEN /\ projects' = [projects EXCEPT ![pr] = NoProject]
             /\ \E stored \in AuditOutcomes :
                  /\ auditLog' = createAuditLog(AuditEntry(tenantId, p, "DELETE", "PROJECT", pr), stored)
                  /\ res' = AfterAudit(r, stored)
        ELSE /\ res' = r
             /\ UNCHANGED <<projects, auditLog>>
     /\ UNCHANGED <<users, tasks, perms, tenants, permColl, upserts, authState>>

\* POST /api/projects/:id/members
addProjectMember(p, ind, pr, userId, role) ==
  LET tenantId == ResolveTenantId(p, ind)
      gate == ProjectWriteChain(p, ind, pr)
      r == IF gate.reason # "pass" THEN gate
           ELSE IF ~FindProject(pr, tenantId) THEN Ctrl(404, "NotFound")
           ELSE IF IsMember(userId, pr) THEN Ctrl(400, "AlreadyMember")
           ELSE Ctrl(200, "OK")
  IN /\ req' = Request("addProjectMember", p, ind, pr, <<userId, role>>)
     /\ IF r.status = 200
        THEN /\ projects' = [projects EXCEPT ![pr].members =
                    @ \cup {[userId |-> userId, role |-> role]}]
             /\ \E stored \in AuditOutcomes :
                  /\ auditLog' = createAuditLog(AuditEntry(tenantId, p, "UPDATE", "PROJECT", pr), stored)
                  /\ res' = AfterAudit(r, stored)
        ELSE /\ res' = r
             /\ UNCHANGED <<projects, auditLog>>
     /\ UNCHANGED <<users, tasks, perms, tenants, permColl, upserts, authState>>

\* DELETE /api/projects/:id/members/:userId
removeProjectMember(p, ind, pr, userId) ==
  LET tenantId == ResolveTenantId(p, ind)
      gate == ProjectWriteChain(p, ind, pr)
      r == IF gate.reason # "pass" THEN gate
           ELSE IF ~FindProject(pr, tenantId) THEN Ctrl(404, "NotFound")
           ELSE Ctrl(200, "OK")
  IN /\ req' = Request("removeProjectMember", p, ind, pr, <<userId>>)
     /\ IF r.status = 200
        THEN /\ projects' = [projects EXCEPT ![pr].members =
                    {m \in @ : m.userId # userId}]
             /\ \E stored \in AuditOutcomes :
                  /\ auditLog' = createAuditLog(AuditEntry(tenantId, p, "UPDATE", "PROJECT", pr), stored)
                  /\ res' = AfterAudit(r, stored)
        ELSE /\ res' = r
             /\ UNCHANGED <<projects, auditLog>>
     /\ UNCHANGED <<users, tasks, perms, tenants, permColl, upserts, authState>>

(***************************************************************************)
(* Reports (report.routes.js) and the tenant audit log (audit.routes.js).  *)
(***************************************************************************)
\* The tasks the report aggregates: those of the tenant, and for a
\* PROJECT_MANAGER those of the projects they manage, own or are a member of.
ReportTasks(p, tenantId) ==
  {t \in TaskIds :
     /\ FindTask(t, tenantId)
     /\ Role(p) = "PROJECT_MANAGER" =>
          \E pr \in ProjectIds :
            /\ tasks[t].projectId = pr
            /\ FindProject(pr, tenantId)
            /\ (projects[pr].managerId = p \/ projects[pr].ownerId = p \/ IsMember(p, pr))}

\* GET /api/reports/task-status: the number of tasks per status.
getTaskStatusReport(p, ind) ==
  LET tenantId == ResolveTenantId(p, ind)
      gate == Then(TenantWorkChain(p, ind),
                   authorize(p, {"ORG_ADMIN", "PROJECT_MANAGER"}))
      matched == ReportTasks(p, tenantId)
      report == {[status |-> s,
                  count |-> Cardinality({t \in matched : tasks[t].status = s})] :
                   s \in {tasks[t].status : t \in matched}}
      r == IF gate.reason # "pass" THEN gate ELSE Found(report)
  IN /\ Answer("getTaskStatusReport", p, ind, None, None, r)
     /\ UNCHANGED <<store, upserts, authState>>

\* User.find({role: 'SUPER_ADMIN'}): the ids the listing leaves out.
IsSuperAdminUser(u) == users[u].exists /\ users[u].role = "SUPER_ADMIN"

\* router.use(...), authorize('ORG_ADMIN') of audit.routes.js
AuditChain(p, ind) == Then(TenantWorkChain(p, ind), authorize(p, {"ORG_ADMIN"}))

\* The positions of the audit collection a query matches; an entry is
\* returned with its position as _id.
AuditDocs(found) == {[id |-> j, entry |-> auditLog[j]] : j \in found}

\* GET /api/audit?userId=: the tenant's entries, those of SUPER_ADMIN users
\* left out of the page and of the count; userId is None without the filter.
getAuditLogs(p, ind, userId) ==
  LET tenantId == ResolveTenantId(p, ind)
      gate == AuditChain(p, ind)
      Match(e) == /\ e.tenantId = tenantId
                  /\ userId # None => e.userId = userId
                  /\ ~IsSuperAdminUser(e.userId)
      logs == AuditDocs({i \in DOMAIN auditLog : Match(auditLog[i])})
      r == IF gate.reason # "pass" THEN gate ELSE Listed(logs, Cardinality(logs))
  IN /\ Answer("getAuditLogs", p, ind, None, userId, r)
     /\ UNCHANGED <<store, upserts, authState>>

\* GET /api/audit/user/:userId
getUserAuditLogs(p, ind, userId) ==
  LET tenantId == ResolveTenantId(p, ind)
      gate == AuditChain(p, ind)
      Match(e) == e.tenantId = tenantId /\ e.userId = userId
      logs == AuditDocs({i \in DOMAIN auditLog : Match(auditLog[i])})
      r == IF gate.reason # "pass" THEN gate ELSE Listed(logs, Cardinality(logs))
  IN /\ Answer("getUserAuditLogs", p, ind, userId, None, r)
     /\ UNCHANGED <<store, upserts, authState>>

\* GET /api/audit/resource/:resourceType/:resourceId
getResourceAuditLogs(p, ind, resourceType, resourceId) ==
  LET tenantId == ResolveTenantId(p, ind)
      gate == AuditChain(p, ind)
      Match(e) == /\ e.tenantId = tenantId
                  /\ e.resourceType = resourceType
                  /\ e.resourceId = resourceId
      logs == AuditDocs({i \in DOMAIN auditLog : Match(auditLog[i])})
      r == IF gate.reason # "pass" THEN gate ELSE Listed(logs, Cardinality(logs))
  IN /\ Answer("getResourceAuditLogs", p, ind, resourceId, resourceType, r)
     /\ UNCHANGED <<store, upserts, authState>>

(***************************************************************************)
(* Listings of tasks and projects (getTasks, getProjects).                 *)
(***************************************************************************)
\* The stored type of a task and status of a project: no handler of the
\* model sets them, so they keep the schema defaults.
TaskType(t) == "STORY"

ProjectStatus(pr) == "PLANNING"

\* sort({createdAt: -1}): the creation order of the stored documents,
\* newest first.
TaskOrder == <<"T2", "T1">>

ProjectOrder == <<"P2", "P1">>

\* limit(limit).skip((page - 1) * limit) over the matching documents.
PageOf(found, order, page, limit) ==
  LET Pos(x) == CHOOSE i \in DOMAIN order : order[i] = x
      Rank(x) == Cardinality({y \in found : Pos(y) < Pos(x)})
  IN {x \in found : (page - 1) * limit <= Rank(x) /\ Rank(x) < page * limit}

\* The projects the role filter of getTasks gives a PROJECT_MANAGER.
managedProjects(p, tenantId) ==
  {pr \in ProjectIds :
     /\ FindProject(pr, tenantId)
     /\ (projects[pr].managerId = p \/ projects[pr].ownerId = p \/ IsMember(p, pr))}

\* The query of getTasks: the role filter first, then each query parameter
\* that is present assigned over it.
TaskQuery(p, tenantId, q) ==
  LET roleAssignee == IF Role(p) = "EMPLOYEE" THEN p ELSE None
      assignee == IF q.assigneeId # None THEN q.assigneeId ELSE roleAssignee
      InProject(t) ==
        IF q.projectId # None THEN tasks[t].projectId = q.projectId
        ELSE IF Role(p) = "PROJECT_MANAGER"
             THEN tasks[t].projectId \in managedProjects(p, tenantId)
             ELSE TRUE
  IN {t \in TaskIds :
        /\ FindTask(t, tenantId)
        /\ assignee # None => tasks[t].assigneeId = assignee
        /\ InProject(t)
        /\ q.status # None => tasks[t].status = q.status
        /\ q.type # None => TaskType(t) = q.type}

\* GET /api/tasks
getTasks(p, ind, q) ==
  LET tenantId == ResolveTenantId(p, ind)
      gate == TenantWorkChain(p, ind)
      found == TaskQuery(p, tenantId, q)
      r == IF gate.reason # "pass" THEN gate
           ELSE Listed(PageOf(found, TaskOrder, q.page, q.limit), Cardinality(found))
  IN /\ Answer("getTasks", p, ind, None, q, r)
     /\ UNCHANGED <<store, upserts, authState>>

\* The query of getProjects.
ProjectQuery(p, tenantId, q) ==
  {pr \in ProjectIds :
     /\ FindProject(pr, tenantId)
     /\ Role(p) = "PROJECT_MANAGER" =>
          (projects[pr].managerId = p \/ projects[pr].ownerId = p \/ IsMember(p, pr))
     /\ Role(p) = "EMPLOYEE" => IsMember(p, pr)
     /\ q.status # None => ProjectStatus(pr) = q.status
     /\ q.managerId # None => projects[pr].managerId = q.managerId}

\* GET /api/projects
getProjects(p, ind, q) ==
  LET tenantId == ResolveTenantId(p, ind)
      gate == TenantWorkChain(p, ind)
      found == ProjectQuery(p, tenantId, q)
      r == IF gate.reason # "pass" THEN gate
           ELSE Listed(PageOf(found, ProjectOrder, q.page, q.limit), Cardinality(found))
  IN /\ Answer("getProjects", p, ind, None, q, r)
     /\ UNCHANGED <<store, upserts, authState>>

(***************************************************************************)
(* User routes (user.routes.js) and their controllers.                     *)
(***************************************************************************)
NoUser == [exists |-> FALSE, role |-> "EMPLOYEE", tenantId |-> None]

\* router.use(authenticate, resolveTenant, tenantScope)
UserChain(p, ind) == resolveTenant(p, ind)

UserWriteChain(p, ind) ==
  Then(UserChain(p, ind), authorize(p, {"SUPER_ADMIN", "ORG_ADMIN"}))

\* A user query that hides no record from an ORG_ADMIN.
ExcludesSuperAdmin_Off(p, u) == FALSE

\* query.role = { $ne: 'SUPER_ADMIN' } for an ORG_ADMIN caller
ExcludesSuperAdmin(p, u) == Role(p) = "ORG_ADMIN" /\ users[u].role = "SUPER_ADMIN"

\* User.findOne(query)
FindUser(p, u, tenantId) ==
  /\ users[u].exists
  /\ users[u].tenantId = tenantId
  /\ ~ExcludesSuperAdmin(p, u)

\* userSchema.isActive: no handler of the model clears it.
UserActive(u) == TRUE

\* sort({createdAt: -1}) over the user collection.
UserOrder == <<"eb", "ob", "e2", "e1", "pm2", "pm", "oa", "sa">>

\* The query of getUsers: the resolved tenant unless it is 'all', the caller
\* left out, SUPER_ADMIN records left out for an ORG_ADMIN, then the role
\* and isActive parameters.
UserQuery(p, tenantId, q) ==
  {u \in UserIds :
     /\ users[u].exists
     /\ tenantId # "all" => users[u].tenantId = tenantId
     /\ u # p
     /\ Role(p) = "ORG_ADMIN" => users[u].role # "SUPER_ADMIN"
     /\ q.role # None => users[u].role = q.role
     /\ q.isActive # None => UserActive(u) = (q.isActive = "true")}

\* GET /api/users
getUsers(p, ind, q) ==
  LET tenantId == ResolveTenantId(p, ind)
      gate == UserChain(p, ind)
      found == UserQuery(p, tenantId, q)
      r == IF gate.reason # "pass" THEN gate
           ELSE IF Role(p) = "ORG_ADMIN" /\ q.role = "SUPER_ADMIN" THEN Listed({}, 0)
           ELSE Listed(PageOf(found, UserOrder, q.page, q.limit), Cardinality(found))
  IN /\ Answer("getUsers", p, ind, None, q, r)
     /\ UNCHANGED <<store, upserts, authState>>

\* GET /api/users/:id
getUserById(p, ind, u) ==
  LET tenantId == ResolveTenantId(p, ind)
      gate == UserChain(p, ind)
      r == IF gate.reason # "pass" THEN gate
           ELSE IF ~FindUser(p, u, tenantId) THEN Ctrl(404, "NotFound")
           ELSE Found({u})
  IN /\ Answer("getUserById", p, ind, u, None, r)
     /\ UNCHANGED <<store, upserts, authState>>

\* The answer of PUT /api/users/:id and PUT /api/users/:id/role for the
\* role the body carries.
UserRoleAnswer(p, ind, u, role) ==
  LET tenantId == ResolveTenantId(p, ind)
      gate == UserWriteChain(p, ind)
  IN IF gate.reason # "pass" THEN gate
     ELSE IF ~FindUser(p, u, tenantId) THEN Ctrl(404, "NotFound")
     ELSE IF Role(p) = "ORG_ADMIN" /\ role = "SUPER_ADMIN"
          THEN Ctrl(403, "CannotAssignSuperAdmin")
     ELSE Ctrl(200, "OK")

\* PUT /api/users/:id
updateUser(p, ind, u, body) ==
  LET r == UserRoleAnswer(p, ind, u, body.role)
  IN /\ req' = Request("updateUser", p, ind, u, body)
     /\ IF r.status = 200
        THEN /\ users' = [users EXCEPT ![u].role =
                    IF body.role = Absent THEN @ ELSE body.role]
             /\ \E stored \in AuditOutcomes :
                  /\ auditLog' = createAuditLog(AuditEntry(ResolveTenantId(p, ind), p, "UPDATE", "USER", u), stored)
                  /\ res' = AfterAudit(r, stored)
        ELSE /\ res' = r
             /\ UNCHANGED <<users, auditLog>>
     /\ UNCHANGED <<projects, tasks, perms, tenants, permColl, upserts, authState>>

\* DELETE /api/users/:id
deleteUser(p, ind, u) ==
  LET tenantId == ResolveTenantId(p, ind)
      gate == UserWriteChain(p, ind)
      r == IF gate.reason # "pass" THEN gate
           ELSE IF ~FindUser(p, u, tenantId) THEN Ctrl(404, "NotFound")
           ELSE Ctrl(200, "OK")
  IN /\ req' = Request("deleteUser", p, ind, u, None)
     /\ IF r.status = 200
        THEN /\ users' = [users EXCEPT ![u] = NoUser]
             /\ \E stored \in AuditOutcomes :
                  /\ auditLog' = createAuditLog(AuditEntry(tenantId, p, "DELETE", "USER", u), stored)
                  /\ res' = AfterAudit(r, stored)
        ELSE /\ res' = r
             /\ UNCHANGED <<users, auditLog>>
     /\ UNCHANGED <<projects, tasks, perms, tenants, permColl, upserts, authState>>

\* PUT /api/users/:id/role
updateUserRole(p, ind, u, role) ==
  LET r == UserRoleAnswer(p, ind, u, role)
  IN /\ req' = Request("updateUserRole", p, ind, u, role)
     /\ IF r.status = 200
        THEN /\ users' = [users EXCEPT ![u].role = role]
             /\ \E stored \in AuditOutcomes :
                  /\ auditLog' = createAuditLog(AuditEntry(ResolveTenantId(p, ind), p, "UPDATE", "USER", u), stored)
                  /\ res' = AfterAudit(r, stored)
        ELSE /\ res' = r
             /\ UNCHANGED <<users, auditLog>>
     /\ UNCHANGED <<projects, tasks, perms, tenants, permColl, upserts, authState>>

(***************************************************************************)
(* Permission overrides (Permission.model.js, permission.controller.js).   *)
(***************************************************************************)
\* A capability matrix: the operations set to true, per category.
CRUD == {"create", "read", "update", "delete"}

NoMatrix == [c \in Categories |-> {}]

\* getDefaultPermissionsForRole returning defaultPermissions.EMPLOYEE for
\* every role.
getDefaultPermissionsForRole_EmployeeOnly(role) ==
  [NoMatrix EXCEPT !["manageProjects"] = {"read"}, !["manageTasks"] = {"read", "update"}]

\* getDefaultPermissionsForRole returning the schema defaults, every flag
\* false.
getDefaultPermissionsForRole_SchemaDefaults(role) == NoMatrix

\* permissionSchema.statics.getDefaultPermissionsForRole
getDefaultPermissionsForRole(role) ==
  CASE role = "SUPER_ADMIN" ->
         [NoMatrix EXCEPT !["manageTenants"] = CRUD, !["manageUsers"] = CRUD,
                          !["viewAuditLogs"] = {"read"}]
    [] role = "ORG_ADMIN" ->
         [NoMatrix EXCEPT !["manageUsers"] = CRUD, !["manageProjects"] = CRUD,
                          !["manageTasks"] = CRUD \cup {"assign"},
                          !["viewReports"] = {"read"}, !["viewAuditLogs"] = {"read"}]
    [] role = "PROJECT_MANAGER" ->
         [NoMatrix EXCEPT !["manageProjects"] = {"create", "read", "update"},
                          !["manageTasks"] = CRUD \cup {"assign"},
                          !["viewReports"] = {"read"}]
    [] OTHER ->
         [NoMatrix EXCEPT !["manageProjects"] = {"read"},
                          !["manageTasks"] = {"read", "update"}]

\* No Permission document for the user.
NoPerm == [present |-> FALSE, permissions |-> NoMatrix]

PermDoc(matrix) == [present |-> TRUE, permissions |-> matrix]

\* The Permission collection, a bag of documents. perms is what
\* Permission.findOne({userId, isActive: true}) gives for each user.
Matching(coll, u) == {d \in BagToSet(coll) : d.userId = u}

\* The unique index on userId without its effect.
UniqueUserId_Off(coll, u) == TRUE

\* permissionSchema.userId is unique: an insert for u is accepted while no
\* document of the collection has that userId.
UniqueUserId(coll, u) == Matching(coll, u) = {}

Inserted(coll, u, matrix) == coll (+) SetToBag({[userId |-> u, permissions |-> matrix]})

\* The update half of findOneAndUpdate: one matching document gets the
\* matrix.
Updated(coll, u, matrix) ==
  LET d == CHOOSE x \in Matching(coll, u) : TRUE
  IN Inserted(coll (-) SetToBag({d}), u, matrix)

\* findOneAndUpdate({userId, isActive: true}, {permissions}, {upsert: true})
\* carried out on its own: a matching document is updated, and a document
\* is inserted when none matches.
Upserted(coll, u, matrix) ==
  IF Matching(coll, u) = {} THEN Inserted(coll, u, matrix)
  ELSE Updated(coll, u, matrix)

\* The requests whose upsert is under way (at most one per connection slot).
Slots == {"s1", "s2"}

Idle == [pc |-> "idle", op |-> "none", who |-> None,
         ind |-> [header |-> None, query |-> None, host |-> <<>>],
         userId |-> None, permissions |-> NoMatrix]

PermissionOps == {"updateUserPermissions", "resetUserPermissions"}

\* The router-level middleware of permission.routes.js: resolveTenant for
\* ORG_ADMIN only, then authorize('SUPER_ADMIN', 'ORG_ADMIN') on each route.
PermissionChain(p, ind) ==
  Then(IF Role(p) = "ORG_ADMIN" THEN resolveTenant(p, ind) ELSE Pass,
       authorize(p, {"SUPER_ADMIN", "ORG_ADMIN"}))

\* req.tenantId as the permission controllers see it.
PermissionTenant(p, ind) ==
  IF Role(p) = "ORG_ADMIN" THEN ResolveTenantId(p, ind) ELSE None

\* A scope test that lets every target through.
OrgAdminScope_Off(p, ind, u) == Pass

\* The ORG_ADMIN scope test shared by the permission controllers.
OrgAdminScope(p, ind, u) ==
  IF Role(p) # "ORG_ADMIN" THEN Pass
  ELSE IF users[u].role \notin {"PROJECT_MANAGER", "EMPLOYEE"}
       THEN Ctrl(403, "TargetRoleOutOfScope")
  ELSE IF users[u].tenantId # PermissionTenant(p, ind)
       THEN Ctrl(403, "TargetOtherTenant")
  ELSE Pass

\* What follows findOneAndUpdate: getIO() throws when no Socket.IO instance
\* was set, and the name of the acting user is read from a record that may
\* be gone; either error reaches the handler's catch.
PermissionNotify(p, io) ==
  IF ~io THEN Ctrl(500, "ServerError")
  ELSE IF ~users[p].exists THEN Ctrl(500, "ServerError")
  ELSE Ctrl(200, "OK")

\* The self-modification test of updateUserPermissions.
SelfCheck(p, u) ==
  IF Role(p) \in {"SUPER_ADMIN", "ORG_ADMIN"} /\ u = p
  THEN Ctrl(403, "CannotModifySelf") ELSE Pass

\* The checks of updateUserPermissions that precede the upsert.
UpdatePermissionsChecks(p, ind, u) ==
  Then(PermissionChain(p, ind),
    IF ~users[u].exists THEN Ctrl(404, "NotFound")
    ELSE Then(OrgAdminScope(p, ind, u), SelfCheck(p, u)))

\* PUT /api/permissions/user/:userId
updateUserPermissions(p, ind, u, permissions, io) ==
  LET checks == UpdatePermissionsChecks(p, ind, u)
      r == Then(checks, PermissionNotify(p, io))
  IN /\ Answer("updateUserPermissions", p, ind, u, permissions, r)
     /\ IF checks.reason = "pass"
        THEN /\ perms' = [perms EXCEPT ![u] = PermDoc(permissions)]
             /\ permColl' = Upserted(permColl, u, permissions)
        ELSE UNCHANGED <<perms, permColl>>
     /\ UNCHANGED <<users, projects, tasks, auditLog, tenants, upserts, authState>>

\* The checks of resetUserPermissions that precede the upsert.
ResetPermissionsChecks(p, ind, u) ==
  Then(PermissionChain(p, ind),
    IF ~users[u].exists THEN Ctrl(404, "NotFound")
    ELSE OrgAdminScope(p, ind, u))

\* POST /api/permissions/user/:userId/reset
resetUserPermissions(p, ind, u, io) ==
  LET checks == ResetPermissionsChecks(p, ind, u)
      r == Then(checks, PermissionNotify(p, io))
  IN /\ Answer("resetUserPermissions", p, ind, u, None, r)
     /\ IF checks.reason = "pass"
        THEN /\ perms' = [perms EXCEPT ![u] =
                  PermDoc(getDefaultPermissionsForRole(users[u].role))]
             /\ permColl' = Upserted(permColl, u, getDefaultPermissionsForRole(users[u].role))
        ELSE UNCHANGED <<perms, permColl>>
     /\ UNCHANGED <<users, projects, tasks, auditLog, tenants, upserts, authState>>

\* The matrix the read handlers report for u with the role of the
\* credential u logged in with.
userPermissions_LoginRole(u) ==
  IF perms[u].present THEN perms[u].permissions
  ELSE getDefaultPermissionsForRole(Role(u))

\* permissionMap[user._id] || Permission.getDefaultPermissionsForRole(user.role):
\* the active override of u, or the defaults of the role in u's record.
userPermissions(u) ==
  IF perms[u].present THEN perms[u].permissions
  ELSE getDefaultPermissionsForRole(users[u].role)

\* The user query of getManageableUsers.
ManageableQuery(p, ind) ==
  {u \in UserIds :
     /\ users[u].exists
     /\ UserActive(u)
     /\ IF Role(p) = "SUPER_ADMIN" THEN TRUE
        ELSE /\ users[u].role \in {"PROJECT_MANAGER", "EMPLOYEE"}
             /\ users[u].tenantId = PermissionTenant(p, ind)}

\* GET /api/permissions/manageable
getManageableUsers(p, ind) ==
  LET r == Then(PermissionChain(p, ind),
             Found({[userId |-> u, role |-> users[u].role,
                     permissions |-> userPermissions(u)] : u \in ManageableQuery(p, ind)}))
  IN /\ Answer("getManageableUsers", p, ind, None, None, r)
     /\ UNCHANGED <<store, upserts, authState>>

\* GET /api/permissions/user/:userId
getUserPermissions(p, ind, u) ==
  LET r == Then(PermissionChain(p, ind),
             IF ~users[u].exists THEN Ctrl(404, "NotFound")
             ELSE Then(OrgAdminScope(p, ind, u),
                    Found({[userId |-> u, role |-> users[u].role,
                            permissions |-> userPermissions(u),
                            isDefault |-> ~perms[u].present]})))
  IN /\ Answer("getUserPermissions", p, ind, u, None, r)
     /\ UNCHANGED <<store, upserts, authState>>

\* The handlers of the permission routes with the upsert in its two server
\* steps. The first step runs the handler's checks and the match of
\* findOneAndUpdate: a matching document is updated at once, and with no
\* match the request goes on to its insert.
upsertBegin(s, p, ind, u, op, permissions) ==
  LET checks == IF op = "updateUserPermissions"
                THEN UpdatePermissionsChecks(p, ind, u)
                ELSE ResetPermissionsChecks(p, ind, u)
      matrix == IF op = "updateUserPermissions" THEN permissions
                ELSE getDefaultPermissionsForRole(users[u].role)
      arg == IF op = "updateUserPermissions" THEN permissions ELSE None
  IN /\ upserts[s] = Idle
     /\ IF checks.reason # "pass"
        THEN /\ Answer(op, p, ind, u, arg, checks)
             /\ UNCHANGED <<perms, permColl, upserts>>
        ELSE IF Matching(permColl, u) # {}
        THEN /\ Answer(op, p, ind, u, arg, PermissionNotify(p, TRUE))
             /\ permColl' = Updated(permColl, u, matrix)
             /\ perms' = [perms EXCEPT ![u] = PermDoc(matrix)]
             /\ UNCHANGED upserts
        ELSE /\ upserts' = [upserts EXCEPT ![s] =
                    [pc |-> "insert", op |-> op, who |-> p, ind |-> ind,
                     userId |-> u, permissions |-> matrix]]
             /\ UNCHANGED <<perms, permColl, req, res>>
     /\ UNCHANGED <<users, projects, tasks, auditLog, tenants, authState>>

\* The insert of an upsert that found no match. The unique index accepts
\* it, or it fails on the duplicate key: the server then either repeats
\* the operation as an update or returns the error, which reaches the
\* handler's catch.
upsertInsert(s) ==
  LET w == upserts[s]
      arg == IF w.op = "updateUserPermissions" THEN w.permissions ELSE None
  IN /\ w.pc = "insert"
     /\ BagCardinality(permColl) < MaxPermDocs
     /\ upserts' = [upserts EXCEPT ![s] = Idle]
     /\ req' = Request(w.op, w.who, w.ind, w.userId, arg)
     /\ IF UniqueUserId(permColl, w.userId)
        THEN /\ permColl' = Inserted(permColl, w.userId, w.permissions)
             /\ perms' = [perms EXCEPT ![w.userId] = PermDoc(w.permissions)]
             /\ res' = PermissionNotify(w.who, TRUE)
        ELSE \/ /\ permColl' = Updated(permColl, w.userId, w.permissions)
                /\ perms' = [perms EXCEPT ![w.userId] = PermDoc(w.permissions)]
                /\ res' = PermissionNotify(w.who, TRUE)
             \/ /\ res' = Ctrl(500, "ServerError")
                /\ UNCHANGED <<perms, permColl>>
     /\ UNCHANGED <<users, projects, tasks, auditLog, tenants, authState>>

(***************************************************************************)
(* Sessions (auth.middleware.js, auth.controller.js, config/redis.js).     *)
(***************************************************************************)
\* Access tokens that login has issued, at time 0: k1 to e1, k2 to oa.
AccessTokens == {"k1", "k2"}

TokenOwner(k) == IF k = "k1" THEN "e1" ELSE "oa"

\* decoded.exp of the access tokens and of the refresh tokens, in clock
\* ticks.
AccessExp == 2

RefreshExp == 7

\* user.refreshToken = null
NoToken == 0

\* The user whose refresh tokens are followed; refresh token 1 is the one
\* their login stored.
RefreshOwner == "e1"

NoRefresh == [pc |-> "idle", token |-> NoToken]

AuthRequest(op, who, id, arg) ==
  [op |-> op, who |-> who, tenant |-> None, src |-> None, id |-> id, arg |-> arg]

\* redisClient.get(`blacklist:${token}`): a key set by logout, until its
\* TTL runs out at the token's expiry.
isBlacklisted(k) == k \in blacklist /\ now < AccessExp

\* authenticate: the Bearer token k of the request (None without the
\* header).
authenticate(k) ==
  IF k = None THEN Deny(401, "NoToken")
  ELSE IF redisClient /\ isBlacklisted(k) THEN Deny(401, "TokenRevoked")
  ELSE IF now >= AccessExp THEN Deny(401, "TokenExpired")
  ELSE Pass

\* GET /api/auth/me
getCurrentUser(k) ==
  LET gate == authenticate(k)
      who == IF k = None THEN None ELSE TokenOwner(k)
      r == IF gate.reason # "pass" THEN gate
           ELSE IF ~users[who].exists THEN Ctrl(404, "NotFound")
           ELSE Found({who})
  IN /\ req' = AuthRequest("getCurrentUser", who, k, None)
     /\ res' = r
     /\ UNCHANGED <<store, upserts, authState>>

\* POST /api/auth/logout
logout(k) ==
  LET gate == authenticate(k)
      who == IF k = None THEN None ELSE TokenOwner(k)
      r == Ctrl(200, "OK")
  IN /\ req' = AuthRequest("logout", who, k, None)
     /\ IF gate.reason # "pass"
        THEN /\ res' = gate
             /\ UNCHANGED <<blacklist, refreshTokens, auditLog, loggedOut>>
        ELSE /\ blacklist' = IF redisClient /\ AccessExp - now > 0
                             THEN blacklist \cup {k} ELSE blacklist
             /\ IF users[who].exists
                THEN /\ refreshTokens' = [refreshTokens EXCEPT ![who] = NoToken]
                     /\ \E stored \in AuditOutcomes :
                          /\ auditLog' = createAuditLog(
                               AuditEntry(users[who].tenantId, who, "LOGOUT", "USER", who),
                               stored)
                          /\ res' = AfterAudit(r, stored)
                ELSE /\ res' = r
                     /\ UNCHANGED <<refreshTokens, auditLog>>
             /\ loggedOut' = IF res'.status = 200 THEN loggedOut \cup {k} ELSE loggedOut
     /\ UNCHANGED <<users, projects, tasks, perms, tenants, permColl, upserts,
                    redisClient, now, issued, refreshes>>

\* The clock.
Tick ==
  /\ now < MaxTime
  /\ now' = now + 1
  /\ UNCHANGED <<store, upserts, redisClient, blacklist, refreshTokens, issued,
                 refreshes, loggedOut, req, res>>

\* POST /api/auth/refresh-token, up to its User.findById: the token t is
\* verified and compared with the one stored for its user.
refreshBegin(s, t) ==
  LET who == RefreshOwner
      refused == \/ ~users[who].exists
                 \/ refreshTokens[who] # t
                 \/ RefreshExp < now
  IN /\ refreshes[s] = NoRefresh
     /\ IF t = NoToken
        THEN /\ req' = AuthRequest("refreshToken", who, t, None)
             /\ res' = Ctrl(400, "RefreshTokenRequired")
             /\ UNCHANGED refreshes
        ELSE IF refused
        THEN /\ req' = AuthRequest("refreshToken", who, t, None)
             /\ res' = Ctrl(401, "InvalidRefreshToken")
             /\ UNCHANGED refreshes
        ELSE /\ refreshes' = [refreshes EXCEPT ![s] = [pc |-> "save", token |-> t]]
             /\ UNCHANGED <<req, res>>
     /\ UNCHANGED <<store, upserts, redisClient, blacklist, now, refreshTokens,
                    issued, loggedOut>>

\* The rest of refreshToken: generateTokens, user.save(), res.json(tokens).
refreshSave(s) ==
  LET who == RefreshOwner
      tokens == issued + 1
  IN /\ refreshes[s].pc = "save"
     /\ issued < MaxIssued
     /\ issued' = tokens
     /\ refreshTokens' = [refreshTokens EXCEPT ![who] = tokens]
     /\ refreshes' = [refreshes EXCEPT ![s] = NoRefresh]
     /\ req' = AuthRequest("refreshToken", who, refreshes[s].token, None)
     /\ res' = Found({tokens})
     /\ UNCHANGED <<store, upserts, redisClient, blacklist, now, loggedOut>>

(***************************************************************************)
(* Tenant settings (tenant.routes.js, tenant.controller.js).               *)
(***************************************************************************)
Timezones == {"UTC", "IST"}

Plans == {"FREE", "PRO"}

\* tenantSchema: settings.timezone defaults to UTC, subscription.plan to FREE.
InitTenants ==
  [x \in Tenants |-> [exists |-> TRUE, settings |-> [timezone |-> "UTC"],
                      subscription |-> [plan |-> "FREE"]]]

\* authenticate, authorize('SUPER_ADMIN', 'ORG_ADMIN'), resolveTenant
SettingsChain(p, ind) ==
  Then(authorize(p, {"SUPER_ADMIN", "ORG_ADMIN"}), resolveTenant(p, ind))

\* GET /api/tenants/:id/settings
getTenantSettings(p, ind, id) ==
  LET gate == SettingsChain(p, ind)
      r == IF gate.reason # "pass" THEN gate
           ELSE IF ~tenants[id].exists THEN Ctrl(404, "NotFound")
           ELSE Found({[id |-> id, settings |-> tenants[id].settings,
                        subscription |-> tenants[id].subscription]})
  IN /\ Answer("getTenantSettings", p, ind, id, None, r)
     /\ UNCHANGED <<store, upserts, authState>>

\* PUT /api/tenants/:id/settings: the body's settings and subscription are
\* merged over the stored ones.
updateTenantSettings(p, ind, id, body) ==
  LET gate == SettingsChain(p, ind)
      after == [tenants[id] EXCEPT
                  !.settings = IF body.hasSettings
                               THEN [timezone |-> body.timezone] ELSE @,
                  !.subscription = IF body.hasSubscription
                                   THEN [plan |-> body.plan] ELSE @]
      r == IF gate.reason # "pass" THEN gate
           ELSE IF ~tenants[id].exists THEN Ctrl(404, "NotFound")
           ELSE Found({[id |-> id, settings |-> after.settings,
                        subscription |-> after.subscription]})
  IN /\ req' = Request("updateTenantSettings", p, ind, id, body)
     /\ IF r.status = 200
        THEN /\ tenants' = [tenants EXCEPT ![id] = after]
             /\ \E stored \in AuditOutcomes :
                  /\ auditLog' = createAuditLog(AuditEntry(id, p, "UPDATE", "TENANT", id), stored)
                  /\ res' = AfterAudit(r, stored)
        ELSE /\ res' = r
             /\ UNCHANGED <<tenants, auditLog>>
     /\ UNCHANGED <<users, projects, tasks, perms, permColl, upserts, authState>>

(***************************************************************************)
(* Initial state: two tenants, a project and a task in each.               *)
(***************************************************************************)
InitProjects ==
  [pr \in ProjectIds |->
     IF pr = "P1"
     THEN [exists |-> TRUE, tenantId |-> "tA", ownerId |-> "oa", managerId |-> "pm",
           members |-> {[userId |-> "e1", role |-> "MEMBER"]}]
     ELSE [exists |-> TRUE, tenantId |-> "tB", ownerId |-> "ob", managerId |-> "ob",
           members |-> {}]]

InitTasks ==
  [t \in TaskIds |->
     IF t = "T1"
     THEN [exists |-> TRUE, tenantId |-> "tA", projectId |-> "P1",
           assigneeId |-> "e2", status |-> "TODO", comments |-> {}]
     ELSE [exists |-> TRUE, tenantId |-> "tB", projectId |-> "P2",
           assigneeId |-> None, status |-> "TODO", comments |-> {}]]

InitData ==
  /\ users = InitUsers
  /\ projects = InitProjects
  /\ tasks = InitTasks
  /\ perms = [u \in UserIds |-> NoPerm]
  /\ auditLog = <<>>
  /\ tenants = InitTenants
  /\ permColl = EmptyBag
  /\ upserts = [s \in Slots |-> Idle]
  /\ req = [op |-> "none", who |-> None, tenant |-> None, src |-> None,
            id |-> None, arg |-> None]
  /\ res = Pass
  /\ blacklist = {}
  /\ now = 0
  /\ refreshTokens = [u \in UserIds |-> IF u = RefreshOwner THEN 1 ELSE NoToken]
  /\ issued = 1
  /\ refreshes = [s \in Slots |-> NoRefresh]
  /\ loggedOut = {}

\* connectRedis succeeded.
Init == InitData /\ redisClient = TRUE

\* connectRedis succeeded, or failed outside production and left the
\* client null.
InitSession == InitData /\ redisClient \in BOOLEAN

(***************************************************************************)
(* Inputs.                                                                 *)
(***************************************************************************)
\* A request of a client of tenant A: X-Tenant-ID names it.
HeaderA == [header |-> "tA", query |-> None, host |-> <<"www", "app">>]

NoBody == [status |-> Absent, assigneeId |-> Absent, tenantId |-> Absent,
           projectId |-> Absent]

\* Bodies of PUT /api/tasks/:id that set a status or an assignee.
TaskBodies ==
  {NoBody}
    \cup {[NoBody EXCEPT !.status = s] : s \in {"IN_PROGRESS", "CANCELLED"}}
    \cup {[NoBody EXCEPT !.assigneeId = a] : a \in {"e1", "e2", None}}

(***************************************************************************)
(* Task operations of the users of tenant A.                               *)
(***************************************************************************)
TaskPrincipals == {"oa", "pm", "pm2", "e1", "e2"}

TaskNext ==
  \E p \in TaskPrincipals :
    \/ \E body \in TaskBodies : updateTask(p, HeaderA, "T1", body)
    \/ \E status \in Statuses : updateTaskStatus(p, HeaderA, "T1", status)
    \/ deleteTask(p, HeaderA, "T1")

SpecTask == Init /\ [][TaskNext]_vars

\* The request this step serves is op, on a task its resolved tenant holds.
ServesTask(ops) ==
  /\ req'.op \in ops
  /\ FindTask(req'.id, req'.tenant)

\* C6: a status change s -> t through updateTaskStatus succeeds only when t
\* is in the table entry of s; any other change of status is refused and
\* leaves the stored status as it was.
C6_TransitionTableEnforced ==
  [][(/\ ServesTask({"updateTaskStatus"})
      /\ req'.arg # tasks[req'.id].status
      /\ ~canTransitionTo(req'.id, req'.arg))
     => (/\ res' = Ctrl(400, "InvalidStatusTransition")
         /\ tasks'[req'.id].status = tasks[req'.id].status)]_vars

\* C7: CANCELLED is terminal: a task whose status is CANCELLED keeps that
\* status as long as it is stored, whatever operation is served.
C7_CancelledIsTerminal ==
  [][\A t \in TaskIds :
       (tasks[t].exists /\ tasks[t].status = "CANCELLED" /\ tasks'[t].exists)
         => tasks'[t].status = "CANCELLED"]_vars

\* C8 as stated: an update of task T by EMPLOYEE e is denied 403 NotOwner
\* and leaves T as it was while T's assignee is another user, and the same
\* request is allowed once e is the assignee.
C8_OwnershipFollowsAssignee ==
  [][(ServesTask({"updateTask", "updateTaskStatus"}) /\ Role(req'.who) = "EMPLOYEE")
     => IF tasks[req'.id].assigneeId # req'.who
        THEN res'.status = 403 /\ res'.reason = "NotOwner" /\ tasks' = tasks
        ELSE res'.status = 200]_vars

\* C8, amended: while T's assignee is another user the update is denied 403
\* NotOwner and T is left as it was; once e is the assignee the request is
\* answered 200, except an updateTask whose body names an assignee other
\* than e, which is refused 403 as a reassignment and leaves T as it was.
C8_OwnershipExceptReassign ==
  [][(ServesTask({"updateTask", "updateTaskStatus"}) /\ Role(req'.who) = "EMPLOYEE")
     => IF tasks[req'.id].assigneeId # req'.who
        THEN res'.status = 403 /\ res'.reason = "NotOwner" /\ tasks' = tasks
        ELSE IF /\ req'.op = "updateTask"
                /\ req'.arg.assigneeId \notin {Absent, None, req'.who}
             THEN res' = Ctrl(403, "CannotReassign") /\ tasks' = tasks
             ELSE res'.status = 200]_vars

\* e1, denied while e2 was the assignee of T1, has been made its assignee
\* and has changed its status.
C8_Witness ==
  /\ req.op = "updateTaskStatus"
  /\ req.who = "e1"
  /\ res.status = 200
  /\ tasks["T1"].assigneeId = "e1"
  /\ tasks["T1"].status = "IN_PROGRESS"

\* C19: an updateTask of an EMPLOYEE that is answered 200 leaves the task's
\* assigneeId as it was, and one whose body would change or clear the
\* assigneeId is denied 403.
C19_EmployeeCannotReassign ==
  [][(ServesTask({"updateTask"}) /\ Role(req'.who) = "EMPLOYEE")
     => (/\ res'.status = 200
              => tasks'[req'.id].assigneeId = tasks[req'.id].assigneeId
         /\ (/\ req'.arg.assigneeId # Absent
             /\ req'.arg.assigneeId # tasks[req'.id].assigneeId)
              => res'.status = 403)]_vars

\* C12: a task write whose audit entry was not stored is not aborted: the
\* change it made is answered 200, and a 200 answer comes with the change
\* committed (the task updated from the body, the status set, the task
\* removed).
C12_AuditFailureKeepsChange ==
  [][(/\ ServesTask({"updateTask", "updateTaskStatus", "deleteTask"})
      /\ auditLog' = auditLog)
     => (/\ tasks' # tasks => res'.status = 200
         /\ res'.status = 200 =>
              CASE req'.op = "updateTask" ->
                     tasks' = [tasks EXCEPT ![req'.id] = AssignBody(@, req'.arg)]
                [] req'.op = "updateTaskStatus" ->
                     tasks' = [tasks EXCEPT ![req'.id].status = req'.arg]
                [] OTHER -> tasks' = [tasks EXCEPT ![req'.id] = NoTask])]_vars

\* T1 was deleted with a 200 answer although no audit entry was stored.
C12_Witness ==
  /\ req.op = "deleteTask"
  /\ res.status = 200
  /\ ~tasks["T1"].exists
  /\ auditLog = <<>>

(***************************************************************************)
(* Comments on task T1.                                                    *)
(***************************************************************************)
CommentPrincipals == {"oa", "pm", "e2"}

CommentNext ==
  \E p \in CommentPrincipals :
    \/ \E content \in {"a", "b"} : addComment(p, HeaderA, "T1", content)
    \/ \E c \in CommentIds, content \in {"a", "b"} :
         updateComment(p, HeaderA, "T1", c, content)
    \/ \E c \in CommentIds : deleteComment(p, HeaderA, "T1", c)
    \/ \E a \in {"e1", "e2"} :
         updateTask(p, HeaderA, "T1", [NoBody EXCEPT !.assigneeId = a])

SpecComment == Init /\ [][CommentNext]_vars

\* The request this step serves is an update or a delete of a comment that
\* another user wrote, on a task of the resolved tenant whose assignee is an
\* EMPLOYEE.
ServesOthersComment ==
  /\ req'.op \in {"updateComment", "deleteComment"}
  /\ FindTask(req'.id, req'.tenant)
  /\ tasks[req'.id].assigneeId # None
  /\ Role(tasks[req'.id].assigneeId) = "EMPLOYEE"
  /\ \E m \in CommentById(req'.id, req'.arg[1]) : m.userId # req'.who

\* C15: on a task assigned to an EMPLOYEE, that employee's update or delete
\* of a comment written by another user is denied 403 NotOwner and leaves
\* the comment as it was, while the same request of an ORG_ADMIN of the
\* tenant is answered 200 and changes or removes the comment.
C15_CommentAuthorOrOrgAdmin ==
  [][ServesOthersComment
     => (/\ req'.who = tasks[req'.id].assigneeId
              => (res' = Ctrl(403, "NotOwner") /\ tasks' = tasks)
         /\ (Role(req'.who) = "ORG_ADMIN" /\ Home(req'.who) = req'.tenant)
              => (/\ res'.status = 200
                  /\ tasks'[req'.id].comments =
                       IF req'.op = "deleteComment"
                       THEN {m \in tasks[req'.id].comments : m.id # req'.arg[1]}
                       ELSE {IF m.id = req'.arg[1]
                             THEN [m EXCEPT !.content = req'.arg[2]] ELSE m :
                               m \in tasks[req'.id].comments}))]_vars

\* e2, the assignee of T1, was denied the update of the comment oa wrote.
C15_Witness ==
  /\ req.op = "updateComment"
  /\ req.who = "e2"
  /\ res = Ctrl(403, "NotOwner")
  /\ tasks["T1"].assigneeId = "e2"
  /\ \E m \in tasks["T1"].comments : m.id = req.arg[1] /\ m.userId = "oa"

\* C13: a successful update or delete of a comment leaves exactly one new
\* audit entry, naming the actor and the task, while the audit collection
\* takes entries.
C13_CommentChangeAudited ==
  [][(/\ req'.op \in {"updateComment", "deleteComment"}
      /\ res'.status = 200
      /\ AuditRoom)
     => (/\ Len(auditLog') = Len(auditLog) + 1
         /\ auditLog'[Len(auditLog')].userId = req'.who
         /\ auditLog'[Len(auditLog')].resourceType = "TASK"
         /\ auditLog'[Len(auditLog')].resourceId = req'.id)]_vars

(***************************************************************************)
(* Permission overrides set by the administrators, and task deletion.      *)
(***************************************************************************)
\* The project manager's defaults with manageTasks.delete switched off.
ManagerNoDelete ==
  [getDefaultPermissionsForRole("PROJECT_MANAGER") EXCEPT !["manageTasks"] = @ \ {"delete"}]

Matrices == {ManagerNoDelete, NoMatrix}

OverridePrincipals == {"sa", "oa", "pm"}

OverrideNext ==
  \E p \in OverridePrincipals :
    \/ \E u \in OverridePrincipals, permissions \in Matrices, io \in BOOLEAN :
         updateUserPermissions(p, HeaderA, u, permissions, io)
    \/ \E u \in OverridePrincipals, io \in BOOLEAN :
         resetUserPermissions(p, HeaderA, u, io)
    \/ deleteTask(p, HeaderA, "T1")

SpecOverride == Init /\ [][OverrideNext]_vars

\* C1: once a PROJECT_MANAGER's override record has manageTasks.delete
\* switched off, each deleteTask request of that manager on a task of a
\* project they manage is denied 403 InsufficientCapability and the task is
\* not deleted.
C1_OverrideDeniesDelete ==
  [][(/\ ServesTask({"deleteTask"})
      /\ Role(req'.who) = "PROJECT_MANAGER"
      /\ ManagesTaskProject(req'.who, req'.id)
      /\ perms[req'.who].present
      /\ "delete" \notin perms[req'.who].permissions["manageTasks"])
     => (/\ res'.status = 403
         /\ res'.reason = "InsufficientCapability"
         /\ tasks' = tasks)]_vars

\* C23: a permission set or reset that has been persisted is answered with
\* the success response, whatever happens in its notification step.
C23_NotificationFailureHidden ==
  [][(req'.op \in PermissionOps /\ perms' # perms) => res'.status = 200]_vars

\* C5: updateUserPermissions and resetUserPermissions by a SUPER_ADMIN or
\* ORG_ADMIN whose target is the caller are denied 403 CannotModifySelf, and
\* the request creates or changes no override record.
C5_CannotModifySelf ==
  [][(/\ req'.op \in {"updateUserPermissions", "resetUserPermissions"}
      /\ Role(req'.who) \in {"SUPER_ADMIN", "ORG_ADMIN"}
      /\ req'.id = req'.who)
     => (/\ res'.status = 403
         /\ res'.reason = "CannotModifySelf"
         /\ perms' = perms)]_vars

(***************************************************************************)
(* Tenant resolution and the SUPER_ADMIN guard, over every combination of  *)
(* tenant indicators.                                                      *)
(***************************************************************************)
GatePrincipals == {"sa", "oa", "eb"}

GateNext ==
  \E p \in GatePrincipals, ind \in Indicators :
    \/ getTaskById(p, ind, "T1")
    \/ deleteTask(p, ind, "T1")
    \/ getProjectById(p, ind, "P1")
    \/ deleteProject(p, ind, "P1")
    \/ getTaskStatusReport(p, ind)
    \/ getAuditLogs(p, ind, None)

SpecGate == Init /\ [][GateNext]_vars

\* The request this step serves names, by a header, the query or the
\* subdomain, a tenant that is not the caller's.
ServesForeignTenant ==
  /\ req'.op # "none"
  /\ Role(req'.who) # "SUPER_ADMIN"
  /\ req'.src \in {"header", "query", "subdomain"}
  /\ req'.tenant # Home(req'.who)

\* C2: a principal whose role is not SUPER_ADMIN and whose request resolves,
\* from the header, the query or the subdomain, to a tenant other than their
\* own is answered 403 TenantAccessDenied by the middleware: the controller
\* is not reached, nothing is returned and nothing stored changes.
C2_TenantIsolation ==
  [][ServesForeignTenant
     => (/\ res' = Deny(403, "TenantAccessDenied")
         /\ store' = store)]_vars

\* oa, of tenant tA, was refused tenant tB named by the subdomain.
C2_Witness ==
  /\ req.op = "getAuditLogs"
  /\ req.who = "oa"
  /\ req.src = "subdomain"
  /\ req.tenant = "tB"
  /\ res.reason = "TenantAccessDenied"

\* A request of a SUPER_ADMIN to a project, task, report or audit route.
ServesSuperAdmin ==
  /\ req'.op # "none"
  /\ Role(req'.who) = "SUPER_ADMIN"

\* C3 as stated: every project, task, report and audit request of a
\* SUPER_ADMIN is answered 403 SuperAdminScopeViolation before the
\* controller runs, whatever the tenant indicators.
C3_SuperAdminAlwaysScopeViolation ==
  [][ServesSuperAdmin
     => (/\ res' = Deny(403, "SuperAdminScopeViolation")
         /\ store' = store)]_vars

\* C3, amended: every such request is refused before the controller runs,
\* returns nothing and changes nothing; the answer is 403
\* SuperAdminScopeViolation when the request names a tenant (header, query
\* or subdomain), and 400 TenantRequired when it names none.
C3_SuperAdminStoppedAtGate ==
  [][ServesSuperAdmin
     => (/\ res' = IF req'.tenant # None
                   THEN Deny(403, "SuperAdminScopeViolation")
                   ELSE Deny(400, "TenantRequired")
         /\ store' = store)]_vars

\* sa was refused the deletion of task T1 of the tenant its query named.
C3_Witness ==
  /\ req.op = "deleteTask"
  /\ req.who = "sa"
  /\ req.src = "query"
  /\ req.tenant = "tA"
  /\ res.reason = "SuperAdminScopeViolation"
  /\ tasks["T1"].exists

(***************************************************************************)
(* User administration in tenant A by the platform and the tenant admin.   *)
(***************************************************************************)
UserBodies == {[role |-> r] : r \in {Absent, "SUPER_ADMIN", "EMPLOYEE"}}

UserPrincipals == {"sa", "oa"}

UserTargets == {"e1", "pm"}

UserOps == {"getUserById", "updateUser", "deleteUser", "updateUserRole"}

UserNext ==
  \E p \in UserPrincipals :
    \/ \E u \in UserTargets :
         \/ getUserById(p, HeaderA, u)
         \/ \E body \in UserBodies : updateUser(p, HeaderA, u, body)
         \/ deleteUser(p, HeaderA, u)
         \/ \E role \in {"SUPER_ADMIN", "EMPLOYEE"} : updateUserRole(p, HeaderA, u, role)
    \/ updateUserPermissions(p, HeaderA, "oa", NoMatrix, TRUE)

SpecUser == Init /\ [][UserNext]_vars

\* C4: every request of a SUPER_ADMIN on a category other than TENANT (here
\* user administration and permission overrides) is answered 403
\* SuperAdminScopeViolation.
C4_SuperAdminTenantOnly ==
  (req.op # "none" /\ Role(req.who) = "SUPER_ADMIN")
    => (res.status = 403 /\ res.reason = "SuperAdminScopeViolation")

\* The request this step serves is an ORG_ADMIN's, in their own tenant, on
\* a stored user record whose role is SUPER_ADMIN.
ServesOnSuperAdminRecord ==
  /\ req'.op \in UserOps
  /\ Role(req'.who) = "ORG_ADMIN"
  /\ req'.tenant = Home(req'.who)
  /\ users[req'.id].exists
  /\ users[req'.id].role = "SUPER_ADMIN"

NoProjectBody == [hasMembers |-> FALSE, members |-> {}, managerId |-> Absent,
                  ownerId |-> Absent]

\* Bodies of PUT /api/projects/:id that set the manager, the owner or the
\* member list.
ProjectBodies ==
  {NoProjectBody}
    \cup {[NoProjectBody EXCEPT !.managerId = m] : m \in {"pm", "pm2"}}
    \cup {[NoProjectBody EXCEPT !.ownerId = "pm2"]}
    \cup {[NoProjectBody EXCEPT !.hasMembers = TRUE, !.members = ms] :
            ms \in {{}, {[userId |-> "pm2", role |-> "LEAD"]}}}

ProjectPrincipals == {"oa", "pm", "pm2"}

ProjectNext ==
  \E p \in ProjectPrincipals :
    \/ \E body \in ProjectBodies : updateProject(p, HeaderA, "P1", body)
    \/ \E userId \in {"pm2", "e1"}, role \in MemberRoles :
         addProjectMember(p, HeaderA, "P1", userId, role)
    \/ \E userId \in {"pm2", "e1"} : removeProjectMember(p, HeaderA, "P1", userId)

SpecProject == Init /\ [][ProjectNext]_vars

\* The request this step serves is a PROJECT_MANAGER's update of a project
\* of the resolved tenant or of its member list.
ServesProjectWrite ==
  /\ req'.op \in {"updateProject", "addProjectMember", "removeProjectMember"}
  /\ Role(req'.who) = "PROJECT_MANAGER"
  /\ FindProject(req'.id, req'.tenant)

\* C9: updateProject, addProjectMember and removeProjectMember of a
\* PROJECT_MANAGER who is neither the project's manager nor its owner nor a
\* LEAD member (a MEMBER or a VIEWER included) are denied 403 NotOwner and
\* change nothing; the manager, and a LEAD member, reach the controller and
\* are not denied: the answer is 200, or for an addProjectMember that names
\* a present member the controller's 400.
C9_ProjectOwnershipNarrowing ==
  [][ServesProjectWrite
     => IF \/ projects[req'.id].managerId = req'.who
           \/ projects[req'.id].ownerId = req'.who
           \/ [userId |-> req'.who, role |-> "LEAD"] \in projects[req'.id].members
        THEN /\ res'.ctrl
             /\ IF req'.op = "addProjectMember"
                    /\ \E m \in projects[req'.id].members : m.userId = req'.arg[1]
                THEN res'.status = 400
                ELSE res'.status = 200
        ELSE /\ res' = Deny(403, "NotOwner")
             /\ store' = store]_vars

\* pm2, neither manager nor owner of P1 but a LEAD member of it, has
\* removed e1 from its members.
C9_Witness ==
  /\ req.op = "removeProjectMember"
  /\ req.who = "pm2"
  /\ req.arg = <<"e1">>
  /\ res.status = 200
  /\ projects["P1"].managerId = "pm"
  /\ projects["P1"].ownerId = "oa"
  /\ [userId |-> "pm2", role |-> "LEAD"] \in projects["P1"].members
  /\ auditLog # <<>>
  /\ auditLog[1].userId = "pm2"

(***************************************************************************)
(* The audit trail of tenant A and its listings.                           *)
(***************************************************************************)
AuditPrincipals == {"sa", "oa"}

AuditListings == {"getAuditLogs", "getUserAuditLogs", "getResourceAuditLogs"}

AuditNext ==
  \E p \in AuditPrincipals :
    \/ \E role \in {"EMPLOYEE", "PROJECT_MANAGER", "SUPER_ADMIN"} :
         updateUserRole(p, HeaderA, "e1", role)
    \/ \E role \in {"ORG_ADMIN", "SUPER_ADMIN"} : updateUserRole(p, HeaderA, "oa", role)
    \/ \E userId \in {None, "sa", "oa"} : getAuditLogs(p, HeaderA, userId)
    \/ \E userId \in {"sa", "oa"} : getUserAuditLogs(p, HeaderA, userId)
    \/ getResourceAuditLogs(p, HeaderA, "USER", "e1")

SpecAudit == Init /\ [][AuditNext]_vars

\* C11: a tenant audit listing returns no entry whose userId is a
\* SUPER_ADMIN user, also under a filter on such an id, and its total is the
\* number of entries returned.
C11_ListingsExcludeSuperAdmin ==
  (req.op \in AuditListings /\ res.status = 200)
    => (/\ \A d \in res.data : ~IsSuperAdminUser(d.entry.userId)
        /\ res.total = Cardinality(res.data))

(***************************************************************************)
(* Writes of every category, by users of every role.                       *)
(***************************************************************************)
HeaderB == [HeaderA EXCEPT !.header = "tB"]

DenialPrincipals == {"sa", "oa", "pm2", "e1"}

DenialNext ==
  \E p \in DenialPrincipals :
    \/ \E ind \in {HeaderA, HeaderB}, a \in {"e1", "e2"} :
         updateTask(p, ind, "T1", [NoBody EXCEPT !.assigneeId = a])
    \/ deleteTask(p, HeaderA, "T1")
    \/ updateProject(p, HeaderA, "P1", [NoProjectBody EXCEPT !.managerId = "pm2"])
    \/ \E role \in {"SUPER_ADMIN", "PROJECT_MANAGER"} : updateUserRole(p, HeaderA, "e1", role)
    \/ updateUserPermissions(p, HeaderA, "oa", NoMatrix, TRUE)

SpecDenial == Init /\ [][DenialNext]_vars

NoHeader == [HeaderA EXCEPT !.header = None]

NoSettingsBody == [hasSettings |-> FALSE, timezone |-> "UTC",
                   hasSubscription |-> FALSE, plan |-> "FREE"]

SettingsBodies ==
  {[NoSettingsBody EXCEPT !.hasSettings = TRUE, !.timezone = "IST"],
   [NoSettingsBody EXCEPT !.hasSubscription = TRUE, !.plan = "PRO"]}

SettingsPrincipals == {"sa", "oa", "ob", "pm"}

SettingsNext ==
  \E p \in SettingsPrincipals, ind \in {HeaderA, HeaderB, NoHeader}, id \in Tenants :
    \/ getTenantSettings(p, ind, id)
    \/ \E body \in SettingsBodies : updateTenantSettings(p, ind, id, body)

SpecSettings == Init /\ [][SettingsNext]_vars

\* C16: getTenantSettings and updateTenantSettings of an ORG_ADMIN with the
\* path id of a tenant other than their own return no settings and no
\* subscription of that tenant and leave them as stored, whatever the
\* tenant indicator of the request.
C16_SettingsOwnTenantOnly ==
  [][(/\ req'.op \in {"getTenantSettings", "updateTenantSettings"}
      /\ Role(req'.who) = "ORG_ADMIN"
      /\ req'.id # Home(req'.who))
     => (/\ res'.data = {}
         /\ tenants'[req'.id] = tenants[req'.id])]_vars

(***************************************************************************)
(* Listings and reads of tasks and projects in tenant A, while the tenant  *)
(* admin reassigns T1 and changes the membership of pm2 in P1.             *)
(***************************************************************************)
TaskQueries ==
  [projectId : {None, "P1"}, status : {None, "TODO"}, assigneeId : {None, "e2"},
   type : {None, "STORY"}, page : {1, 2}, limit : {1}]

ProjectQueries ==
  [status : {None, "PLANNING"}, managerId : {None, "pm"}, page : {1, 2}, limit : {1}]

ListPrincipals == {"pm", "pm2", "e1"}

ListNext ==
  \/ \E p \in ListPrincipals :
       \/ \E q \in TaskQueries : getTasks(p, HeaderA, q)
       \/ \E q \in ProjectQueries : getProjects(p, HeaderA, q)
       \/ getTaskById(p, HeaderA, "T1")
       \/ getProjectById(p, HeaderA, "P1")
  \/ \E a \in {"e1", "e2"} :
       updateTask("oa", HeaderA, "T1", [NoBody EXCEPT !.assigneeId = a])
  \/ \E role \in {"MEMBER", "LEAD"} : addProjectMember("oa", HeaderA, "P1", "pm2", role)
  \/ removeProjectMember("oa", HeaderA, "P1", "pm2")

SpecList == Init /\ [][ListNext]_vars

\* C17: every task getTasks returns to an EMPLOYEE is assigned to that
\* employee, and the total it reports counts no other task, whatever the
\* query parameters.
C17_EmployeeListsOwnTasks ==
  (req.op = "getTasks" /\ Role(req.who) = "EMPLOYEE" /\ res.status = 200)
    => (/\ \A t \in res.data : tasks[t].assigneeId = req.who
        /\ res.total <= Cardinality({t \in TaskIds : /\ FindTask(t, req.tenant)
                                                      /\ tasks[t].assigneeId = req.who}))

\* C18: every project getProjects and getProjectById return to a
\* PROJECT_MANAGER, and the project of every task getTasks and getTaskById
\* return to them, has them as manager, as owner or as LEAD member, whatever
\* the query parameters.
C18_ManagerSeesManagedOnly ==
  (/\ req.op \in {"getProjects", "getProjectById", "getTasks", "getTaskById"}
   /\ Role(req.who) = "PROJECT_MANAGER"
   /\ res.status = 200)
    => \A x \in res.data :
         IF req.op \in {"getProjects", "getProjectById"}
         THEN isProjectManager(req.who, x)
         ELSE isProjectManager(req.who, tasks[x].projectId)

(***************************************************************************)
(* The user directory of tenant A, read by users of every role.            *)
(***************************************************************************)
UserQueries ==
  [role : {None, "EMPLOYEE", "SUPER_ADMIN"}, isActive : {None, "true", "false"},
   page : {1, 2}, limit : {2}]

DirectoryPrincipals == {"sa", "oa", "pm", "e1"}

DirectoryNext ==
  \/ \E p \in DirectoryPrincipals :
       \/ \E q \in UserQueries : getUsers(p, HeaderA, q)
       \/ \E u \in {"oa", "e2"} : getUserById(p, HeaderA, u)
  \/ \E role \in {"EMPLOYEE", "PROJECT_MANAGER"} : updateUserRole("oa", HeaderA, "e2", role)
  \/ deleteUser("oa", HeaderA, "pm2")

SpecDirectory == Init /\ [][DirectoryNext]_vars

\* C20: every GET /api/users and GET /api/users/:id of a PROJECT_MANAGER or
\* an EMPLOYEE is denied 403 and returns no user record.
C20_DirectoryAdminsOnly ==
  (/\ req.op \in {"getUsers", "getUserById"}
   /\ Role(req.who) \in {"PROJECT_MANAGER", "EMPLOYEE"})
    => (res.status = 403 /\ res.data = {})

(***************************************************************************)
(* Permission overrides written by the tenant admins of both tenants, on   *)
(* targets of every role and of either tenant.                             *)
(***************************************************************************)
ScopePrincipals == {"oa", "ob"}

ScopeTargets == {"sa", "oa", "pm", "e1", "eb"}

ScopeNext ==
  \/ \E p \in ScopePrincipals, ind \in {HeaderA, HeaderB}, u \in ScopeTargets :
       \/ updateUserPermissions(p, ind, u, ManagerNoDelete, TRUE)
       \/ resetUserPermissions(p, ind, u, TRUE)
  \/ \E role \in {"ORG_ADMIN", "EMPLOYEE"} : updateUserRole("oa", HeaderA, "e1", role)

SpecScope == Init /\ [][ScopeNext]_vars

\* The target of the override request this step serves is a stored user of
\* role PROJECT_MANAGER or EMPLOYEE in the caller's tenant.
TargetInScope ==
  /\ users[req'.id].exists
  /\ users[req'.id].role \in {"PROJECT_MANAGER", "EMPLOYEE"}
  /\ users[req'.id].tenantId = Home(req'.who)

\* C21: an ORG_ADMIN's updateUserPermissions or resetUserPermissions is
\* answered 200, or writes an override record, only for a target of role
\* PROJECT_MANAGER or EMPLOYEE in the caller's tenant; for any other stored
\* target it is answered 403 and the override records stay as they were.
C21_OverrideWithinScope ==
  [][(/\ req'.op \in {"updateUserPermissions", "resetUserPermissions"}
      /\ Role(req'.who) = "ORG_ADMIN")
     => (/\ (res'.status = 200 \/ perms' # perms) => TargetInScope
         /\ (users[req'.id].exists /\ ~TargetInScope)
              => (res'.status = 403 /\ perms' = perms))]_vars

\* oa, who has written an override for a user of tenant A, was denied the
\* override of eb, a user of tenant B.
C21_Witness ==
  /\ req.op = "updateUserPermissions"
  /\ req.who = "oa"
  /\ req.id = "eb"
  /\ res = Ctrl(403, "TargetOtherTenant")
  /\ perms["pm"].present
  /\ ~perms["eb"].present

(***************************************************************************)
(* Two connections on which the tenant admin sets and resets the overrides *)
(* of pm and e1 at the same time.                                          *)
(***************************************************************************)
UpsertNext ==
  \E s \in Slots :
    \/ \E u \in {"pm", "e1"}, op \in PermissionOps :
         upsertBegin(s, "oa", HeaderA, u, op, ManagerNoDelete)
    \/ upsertInsert(s)

SpecUpsert == Init /\ [][UpsertNext]_vars

\* C22: the Permission collection holds at most one document per userId in
\* every reachable state, and an upsert that ends with no document of its
\* user in the collection (no request on the same user got in between) is
\* answered 200 and leaves one.
C22_OneOverridePerUser ==
  /\ [](\A u \in UserIds :
          /\ Cardinality(Matching(permColl, u)) <= 1
          /\ \A d \in Matching(permColl, u) : CopiesIn(d, permColl) = 1)
  /\ [][\A s \in Slots :
          (/\ upserts[s].pc = "insert"
           /\ upserts'[s] = Idle
           /\ Matching(permColl, upserts[s].userId) = {})
            => (/\ res'.status = 200
                /\ Cardinality(Matching(permColl', upserts[s].userId)) = 1)]_vars

\* Two upserts for pm were under way together: the insert of the second
\* met the document of the first, was refused, and pm has one document.
C22_Witness ==
  /\ req.op \in PermissionOps
  /\ req.id = "pm"
  /\ res = Ctrl(500, "ServerError")
  /\ Cardinality(Matching(permColl, "pm")) = 1
  /\ Cardinality(Matching(permColl, "e1")) = 1

(***************************************************************************)
(* Sessions: requests that present the access tokens, with or without a    *)
(* Redis client.                                                           *)
(***************************************************************************)
SessionNext ==
  \/ \E k \in AccessTokens \cup {None} :
       \/ getCurrentUser(k)
       \/ logout(k)
  \/ deleteUser("oa", HeaderA, "e1")
  \/ Tick

SpecSession == InitSession /\ [][SessionNext]_vars

\* C24: a request that presents an access token whose logout was answered
\* with success, before the token's expiry, is answered 401.
C24_RevokedTokenRejected ==
  (req.op = "getCurrentUser" /\ req.id \in loggedOut /\ now < AccessExp)
    => res.status = 401

(***************************************************************************)
(* Role defaults: the default table, the read handlers and the reset.      *)
(***************************************************************************)
DefaultsPrincipals == {"sa", "oa"}

DefaultsTargets == {"sa", "oa", "e1"}

Roles == {"SUPER_ADMIN", "ORG_ADMIN", "PROJECT_MANAGER", "EMPLOYEE"}

DefaultsNext ==
  \/ \E u \in DefaultsTargets, io \in BOOLEAN :
       \/ updateUserPermissions("sa", HeaderA, u, ManagerNoDelete, io)
       \/ resetUserPermissions("sa", HeaderA, u, io)
  \/ \E role \in Roles : updateUserRole("sa", HeaderA, "e1", role)
  \/ \E p \in DefaultsPrincipals :
       \/ \E u \in DefaultsTargets : getUserPermissions(p, HeaderA, u)
       \/ getManageableUsers(p, HeaderA)

SpecDefaults == Init /\ [][DefaultsNext]_vars

\* The default table as the specification states it.
DefaultTable ==
  [role \in Roles |->
     CASE role = "SUPER_ADMIN" ->
            [manageTenants |-> {"create", "read", "update", "delete"},
             manageUsers |-> {"create", "read", "update", "delete"},
             manageProjects |-> {}, manageTasks |-> {},
             viewReports |-> {}, viewAuditLogs |-> {"read"}]
       [] role = "ORG_ADMIN" ->
            [manageTenants |-> {},
             manageUsers |-> {"create", "read", "update", "delete"},
             manageProjects |-> {"create", "read", "update", "delete"},
             manageTasks |-> {"create", "read", "update", "delete", "assign"},
             viewReports |-> {"read"}, viewAuditLogs |-> {"read"}]
       [] role = "PROJECT_MANAGER" ->
            [manageTenants |-> {}, manageUsers |-> {},
             manageProjects |-> {"create", "read", "update"},
             manageTasks |-> {"create", "read", "update", "delete", "assign"},
             viewReports |-> {"read"}, viewAuditLogs |-> {}]
       [] OTHER ->
            [manageTenants |-> {}, manageUsers |-> {},
             manageProjects |-> {"read"}, manageTasks |-> {"read", "update"},
             viewReports |-> {}, viewAuditLogs |-> {}]]

\* A reset that got as far as its upsert.
ResetStored ==
  /\ req'.op = "resetUserPermissions"
  /\ res'.ctrl
  /\ res'.status \in {200, 500}

\* A read of the permission routes answered with the role defaults of u.
ReadsDefaults(u) ==
  /\ req'.op \in {"getUserPermissions", "getManageableUsers"}
  /\ res'.status = 200
  /\ ~perms[u].present
  /\ \E d \in res'.data : d.userId = u

\* C25: getDefaultPermissionsForRole gives, for each of the four roles and
\* in every state, the matrix of the default table; each reset stores that
\* matrix for the role of its target, each read that falls back on the
\* defaults reports it, and a handler that only calls the function leaves
\* the stored state as it was.
C25_DefaultsEqualTable ==
  [][/\ \A role \in Roles : getDefaultPermissionsForRole(role) = DefaultTable[role]
     /\ ResetStored => perms'[req'.id] = PermDoc(DefaultTable[users[req'.id].role])
     /\ \A u \in UserIds : ReadsDefaults(u) =>
          /\ \A d \in res'.data : d.userId = u => d.permissions = DefaultTable[users[u].role]
          /\ UNCHANGED store]_vars

C25_Witness ==
  /\ req.op = "getUserPermissions"
  /\ res.status = 200
  /\ \E d \in res.data : d.isDefault /\ d.role = "PROJECT_MANAGER"
  /\ \A u \in {"sa", "oa"} : perms[u] = PermDoc(DefaultTable[users[u].role])


\* C26: for each user without an active override record, getUserPermissions
\* and getManageableUsers report the default matrix of the role the user's
\* record has at that moment, and a read of either route leaves the
\* override records as they were.
C26_ReadsReportRoleDefaults ==
  [][/\ \A u \in UserIds : ReadsDefaults(u) =>
          \A d \in res'.data : d.userId = u =>
             /\ d.role = users[u].role
             /\ d.permissions = getDefaultPermissionsForRole(users[u].role)
     /\ req'.op \in {"getUserPermissions", "getManageableUsers"} =>
          /\ perms' = perms
          /\ permColl' = permColl]_vars

C26_Witness ==
  /\ req.op = "getManageableUsers"
  /\ req.who = "oa"
  /\ res.status = 200
  /\ ~perms["e1"].present
  /\ users["e1"].role = "PROJECT_MANAGER"
  /\ \E d \in res.data : d.userId = "e1" /\ d.permissions = DefaultTable["PROJECT_MANAGER"]

\* The request answered last was a reset that got as far as its upsert.
LastResetStored ==
  /\ req.op = "resetUserPermissions"
  /\ res.ctrl
  /\ res.status \in {200, 500}

\* C27: a reset of u that directly follows a reset of u stores the matrix
\* the first one stored, the default matrix of u's role, and a
\* getUserPermissions of u that directly follows a reset of u returns that
\* matrix.
C27_ResetIdempotent ==
  [][/\ (LastResetStored /\ ResetStored /\ req'.id = req.id) =>
          /\ perms'[req.id] = perms[req.id]
          /\ perms'[req.id] = PermDoc(DefaultTable[users[req.id].role])
     /\ (LastResetStored /\ req'.op = "getUserPermissions" /\ req'.id = req.id
           /\ res'.status = 200) =>
          \A d \in res'.data :
             /\ d.permissions = perms[req.id].permissions
             /\ d.permissions = DefaultTable[users[req.id].role]
             /\ ~d.isDefault]_vars

\* A reset of e1 has been stored, and the same reset can be made again
\* with the same stored result.
C27_Witness ==
  /\ LastResetStored
  /\ req.id = "e1"
  /\ users["e1"].role = "PROJECT_MANAGER"
  /\ perms["e1"] = PermDoc(DefaultTable["PROJECT_MANAGER"])
  /\ ENABLED (resetUserPermissions("sa", HeaderA, "e1", TRUE) /\ perms' = perms)

(***************************************************************************)
(* The tenant of a task across the task operations.                        *)
(***************************************************************************)
TenancyPrincipals == {"oa", "pm", "e2"}

\* Bodies of POST /api/tasks and PUT /api/tasks/:id that name a project, a
\* tenant or a status.
TenancyBodies ==
  {NoBody, [NoBody EXCEPT !.status = "IN_PROGRESS"]}
    \cup {[NoBody EXCEPT !.projectId = pr] : pr \in ProjectIds}
    \cup {[NoBody EXCEPT !.projectId = "P1", !.tenantId = "tB"],
          [NoBody EXCEPT !.tenantId = "tB"]}

TenancyNext ==
  \E p \in TenancyPrincipals :
    \/ \E body \in TenancyBodies : createTask(p, HeaderA, body)
    \/ \E body \in TenancyBodies : updateTask(p, HeaderA, "T1", body)
    \/ updateTaskStatus(p, HeaderA, "T1", "IN_PROGRESS")
    \/ addComment(p, HeaderA, "T1", "c")
    \/ deleteTask(p, HeaderA, "T1")

SpecTenancy == Init /\ [][TenancyNext]_vars

\* C28: a stored task keeps the tenantId it has, from its creation on, and
\* that tenantId is the tenantId of the project its projectId names.
C28_TaskStaysInTenant ==
  [][\A t \in TaskIds : tasks'[t].exists =>
        /\ tasks[t].exists => tasks'[t].tenantId = tasks[t].tenantId
        /\ tasks'[t].projectId \in ProjectIds
        /\ projects'[tasks'[t].projectId].tenantId = tasks'[t].tenantId]_vars

(***************************************************************************)
(* Refresh-token requests of one user, two of them at a time.              *)
(***************************************************************************)
RefreshNext ==
  \/ \E s \in Slots :
       \/ \E t \in 0..MaxIssued : refreshBegin(s, t)
       \/ refreshSave(s)
  \/ logout("k1")

SpecRefresh == Init /\ [][RefreshNext]_vars

\* C29: a refreshToken request that is answered with new tokens presented
\* a token no earlier request has redeemed: at the time of the answer the
\* token stored for its user is still the presented one, unless a logout
\* that overtook the request has cleared it.
C29_RefreshTokenSingleUse ==
  [][\A s \in Slots :
        (refreshes[s].pc = "save" /\ refreshes'[s].pc = "idle" /\ res'.status = 200)
          => refreshTokens[RefreshOwner] \in {refreshes[s].token, NoToken}]_vars

(***************************************************************************)
(* Status changes by a user whose record may be deleted meanwhile.         *)
(***************************************************************************)
ResponsePrincipals == {"oa", "pm", "e2"}

ResponseNext ==
  \/ \E p \in ResponsePrincipals, status \in Statuses :
       updateTaskStatus(p, HeaderA, "T1", status)
  \/ \E u \in {"e2", "pm"} : deleteUser("oa", HeaderA, u)

SpecResponse == Init /\ [][ResponseNext]_vars

\* C30: the handler of every request sends a response; in particular an
\* updateTaskStatus that saved the new status ends with one on every path
\* through its notification step.
C30_EveryRequestAnswered ==
  req.op # "none" => res.status # 0

====
